---- MODULE Spec2Model ----
(***************************************************************************)
(* Model of the raycast2api relay (src/src/handlers/chat.ts).              *)
(*                                                                         *)
(* Response translation: the streaming translator                          *)
(* handleStreamingResponse, an async task that reads the vendor's          *)
(* server-sent-event body incrementally and writes OpenAI chunks to the    *)
(* downstream writer, and the non-streaming path                           *)
(* handleNonStreamingResponse / parseSSEResponse.                          *)
(*                                                                         *)
(* Text is modelled as a sequence of lexemes: "\n", " " (any trimmable     *)
(* whitespace), the prefix "data:", the token "[DONE]", JSON payloads and  *)
(* other text.  A read() delivers one or more lexemes, so a line can be    *)
(* split between reads at any lexeme boundary.                             *)
(*                                                                         *)
(* The translation task is modelled await by await: in every state at most *)
(* the last entry of log is an operation still pending, and each action is *)
(* the settling of that operation followed by the synchronous code up to   *)
(* the next await, where the next operation is issued.                     *)
(*                                                                         *)
(* Five specifications share the module's variables:                       *)
(*   Spec       the translation of one vendor response;                    *)
(*   SpecLive   the same on shorter bodies, with every pending operation   *)
(*              settling in the end (weak fairness);                       *)
(*   SpecCall   one call of a helper of utils.ts (rot13rot5Encode,         *)
(*              calculateSignatureV2, getRaycastHeaders, convertMessages,  *)
(*              getProviderInfo, fetchModels) on arguments the relay can   *)
(*              pass;                                                      *)
(*   SpecRelay  the routes and handlers of index.ts, handlers/chat.ts and  *)
(*              handlers/models.ts, with concurrent requests, the          *)
(*              process-wide backendState and the calls to the vendor;     *)
(*   SpecReady  the /ready and /v1/models routes alone, with more          *)
(*              requests and finer steps of time.                          *)
(* Each leaves the variables of the other groups at their idle values.     *)
(***************************************************************************)
EXTENDS Integers, Sequences, FiniteSets, TLC

VARIABLES
    stream,          \* the request's `stream` flag (chat.ts:31,108)
    hasBody,         \* response.body is non-null (chat.ts:132)
    lines,           \* the vendor's lines, as indexes into LineKinds (input)
    terminated,      \* whether the vendor's last line ends with "\n" (input)
    upstream,        \* lexemes of the vendor body not yet delivered by read()
    buffer,          \* chat.ts:142
    streamFinished,  \* chat.ts:143
    aborted,         \* chat.ts:144
    stopReason,      \* which statement ended the read loop
    log,             \* the I/O operations the task issued, in issue order
    pc,              \* the await the task is suspended at
    carried,         \* a read was issued while buffer held part of a line
    fullText,        \* handleNonStreamingResponse's fullText (chat.ts:268)
    fn,              \* the helper of utils.ts that is called, or "none"
    args,            \* the call's arguments
    result,          \* the call's return value
    returned,        \* whether the call has returned
    envVars,         \* the configuration, env<Env>(c) (index.ts:33)
    backendState,    \* index.ts:14-19
    clock,           \* the clock: the value of Date.now()
    requests,        \* the inbound requests so far, each with its progress
    vendorCalls      \* the calls made to the vendor, in issue order

\* the translation of one vendor response (chat.ts:123-310)
translationVars == <<stream, hasBody, lines, terminated, upstream, buffer,
                     streamFinished, aborted, stopReason, log, pc, carried,
                     fullText>>

\* one call of a helper of utils.ts (chat.ts:325-494)
callVars == <<fn, args, result, returned>>

\* the relay's routes and handlers (index.ts, handlers/chat.ts:22-121,
\* handlers/models.ts)
relayVars == <<envVars, backendState, clock, requests, vendorCalls>>

vars == <<translationVars, callVars, relayVars>>

(***************************************************************************)
(* Bounds of the model.                                                    *)
(***************************************************************************)
MaxLines == 3

(***************************************************************************)
(* Lexemes.                                                                *)
(***************************************************************************)
NL == "\n"
SP == " "
DATA == "data:"
DONE == "[DONE]"
JA == "{\"text\":\"a\"}"
JB == "{\"text\":\"b\",\"finish_reason\":null}"
JSTOP == "{\"finish_reason\":\"stop\"}"
JBAD == "{\"text\":"
CMT == ": ping"

UNDEFINED == "<undefined>"
NULL == "<null>"

(***************************************************************************)
(* JSON.parse on a payload (chat.ts:170, chat.ts:501), for the payloads of *)
(* the model: ok is FALSE where JSON.parse throws.  RaycastSSEData is      *)
(* types.ts:87-90.                                                         *)
(***************************************************************************)
JSONparse(s) ==
    IF s = <<JA>> THEN
        [ok |-> TRUE, hasText |-> TRUE, text |-> <<"a">>, finish_reason |-> UNDEFINED]
    ELSE IF s = <<JB>> THEN
        [ok |-> TRUE, hasText |-> TRUE, text |-> <<"b">>, finish_reason |-> NULL]
    ELSE IF s = <<JSTOP>> THEN
        [ok |-> TRUE, hasText |-> FALSE, text |-> <<>>, finish_reason |-> "stop"]
    ELSE
        [ok |-> FALSE, hasText |-> FALSE, text |-> <<>>, finish_reason |-> UNDEFINED]

(***************************************************************************)
(* String operations of the code, on lexeme sequences.                     *)
(***************************************************************************)
SetMin(S) == CHOOSE x \in S : \A y \in S : x <= y
SetMax(S) == CHOOSE x \in S : \A y \in S : x >= y

\* indexOfNewline as lastIndexOf
indexOfNewline_Last(s) ==
    LET at == {i \in 1..Len(s) : s[i] = NL}
    IN  IF at = {} THEN 0 ELSE SetMax(at)

\* buffer.indexOf("\n"), 1-based; 0 where the code gets -1
indexOfNewline(s) ==
    LET at == {i \in 1..Len(s) : s[i] = NL}
    IN  IF at = {} THEN 0 ELSE SetMin(at)

\* String.prototype.trim
trim(s) ==
    LET keep == {i \in 1..Len(s) : s[i] # SP}
    IN  IF keep = {} THEN <<>> ELSE SubSeq(s, SetMin(keep), SetMax(keep))

\* line.startsWith("data:")
startsWithData(s) == Len(s) >= 1 /\ s[1] = DATA

\* line.substring(5), of a line that starts with "data:"
substring5(s) == Tail(s)


(***************************************************************************)
(* The vendor's lines.  Each kind gives the line's lexemes and what the    *)
(* vendor means by it: ev is "event" (a JSON event), "done" (the "[DONE]"  *)
(* terminator), "bad" (a data line with a malformed payload) or "none"     *)
(* (not a data line); indent says that whitespace precedes "data:".        *)
(***************************************************************************)
LineKinds == <<
    [toks |-> <<DATA, SP, JA>>,   ev |-> "event", indent |-> FALSE,
     hasText |-> TRUE,  text |-> <<"a">>, finish_reason |-> NULL],
    [toks |-> <<DATA, JB, SP>>,   ev |-> "event", indent |-> FALSE,
     hasText |-> TRUE,  text |-> <<"b">>, finish_reason |-> NULL],
    [toks |-> <<SP, DATA, JA>>,   ev |-> "event", indent |-> TRUE,
     hasText |-> TRUE,  text |-> <<"a">>, finish_reason |-> NULL],
    [toks |-> <<DATA, JSTOP>>,    ev |-> "event", indent |-> FALSE,
     hasText |-> FALSE, text |-> <<>>,    finish_reason |-> "stop"],
    [toks |-> <<DATA, SP, DONE>>, ev |-> "done",  indent |-> FALSE,
     hasText |-> FALSE, text |-> <<>>,    finish_reason |-> NULL],
    [toks |-> <<DATA, JBAD>>,     ev |-> "bad",   indent |-> FALSE,
     hasText |-> FALSE, text |-> <<>>,    finish_reason |-> NULL],
    [toks |-> <<CMT>>,            ev |-> "none",  indent |-> FALSE,
     hasText |-> FALSE, text |-> <<>>,    finish_reason |-> NULL],
    [toks |-> <<>>,               ev |-> "none",  indent |-> FALSE,
     hasText |-> FALSE, text |-> <<>>,    finish_reason |-> NULL] >>

Kinds == 1..Len(LineKinds)

\* The body text of the vendor's lines: each line but the last is followed
\* by "\n", and the last one too when `term`.
RECURSIVE Render(_, _)
Render(ls, term) ==
    IF ls = <<>> THEN <<>>
    ELSE IF Len(ls) = 1
         THEN LineKinds[ls[1]].toks \o (IF term THEN <<NL>> ELSE <<>>)
         ELSE LineKinds[ls[1]].toks \o <<NL>> \o Render(Tail(ls), term)

Body == Render(lines, terminated)

(***************************************************************************)
(* The chunk of chat.ts:171-186 (id, created and model left out).          *)
(***************************************************************************)
NoChunk == [content |-> <<>>, finish_reason |-> NULL]

MakeChunk(jsonData) ==
    [content |-> IF jsonData.hasText /\ jsonData.text # <<>>
                 THEN jsonData.text ELSE <<>>,
     finish_reason |-> IF jsonData.finish_reason = UNDEFINED
                       THEN NULL ELSE jsonData.finish_reason]

\* innerLoop writing a chunk only for an event that has a text fragment
RECURSIVE innerLoop_TextOnly(_)
innerLoop_TextOnly(buf) ==
    LET newlineIndex == indexOfNewline(buf)
    IN  IF newlineIndex = 0
        THEN [outcome |-> "exhausted", buffer |-> buf, chunk |-> NoChunk]
        ELSE LET line == trim(SubSeq(buf, 1, newlineIndex - 1))
                 rest == SubSeq(buf, newlineIndex + 1, Len(buf))
             IN  IF ~startsWithData(line) THEN innerLoop_TextOnly(rest)
                 ELSE LET dataContent == trim(substring5(line))
                          jsonData == JSONparse(dataContent)
                      IN  IF dataContent = <<DONE>>
                          THEN [outcome |-> "done", buffer |-> rest,
                                chunk |-> NoChunk]
                          ELSE IF jsonData.ok /\ jsonData.hasText
                          THEN [outcome |-> "write", buffer |-> rest,
                                chunk |-> MakeChunk(jsonData)]
                          ELSE innerLoop_TextOnly(rest)

\* innerLoop without the "[DONE]" test of chat.ts:164-167
RECURSIVE innerLoop_NoDoneTest(_)
innerLoop_NoDoneTest(buf) ==
    LET newlineIndex == indexOfNewline(buf)
    IN  IF newlineIndex = 0
        THEN [outcome |-> "exhausted", buffer |-> buf, chunk |-> NoChunk]
        ELSE LET line == trim(SubSeq(buf, 1, newlineIndex - 1))
                 rest == SubSeq(buf, newlineIndex + 1, Len(buf))
             IN  IF ~startsWithData(line) THEN innerLoop_NoDoneTest(rest)
                 ELSE LET jsonData == JSONparse(trim(substring5(line)))
                      IN  IF jsonData.ok
                          THEN [outcome |-> "write", buffer |-> rest,
                                chunk |-> MakeChunk(jsonData)]
                          ELSE innerLoop_NoDoneTest(rest)

\* innerLoop without the try/catch of chat.ts:169 and 209-216 around
\* JSON.parse: a malformed payload ends the loop
RECURSIVE innerLoop_ParseErrorEnds(_)
innerLoop_ParseErrorEnds(buf) ==
    LET newlineIndex == indexOfNewline(buf)
    IN  IF newlineIndex = 0
        THEN [outcome |-> "exhausted", buffer |-> buf, chunk |-> NoChunk]
        ELSE LET line == trim(SubSeq(buf, 1, newlineIndex - 1))
                 rest == SubSeq(buf, newlineIndex + 1, Len(buf))
             IN  IF ~startsWithData(line) THEN innerLoop_ParseErrorEnds(rest)
                 ELSE LET dataContent == trim(substring5(line))
                          jsonData == JSONparse(dataContent)
                      IN  IF dataContent = <<DONE>> \/ ~jsonData.ok
                          THEN [outcome |-> "done", buffer |-> rest,
                                chunk |-> NoChunk]
                          ELSE [outcome |-> "write", buffer |-> rest,
                                chunk |-> MakeChunk(jsonData)]

(***************************************************************************)
(* The synchronous part of the inner loop, chat.ts:157-186 and 209-217:    *)
(* lines are taken off the buffer until one needs a chunk written          *)
(* ("write"), one is the vendor's "[DONE]" ("done"), or no newline is left *)
(* ("exhausted").                                                          *)
(***************************************************************************)
RECURSIVE innerLoop(_)
innerLoop(buf) ==
    LET newlineIndex == indexOfNewline(buf)
    IN  IF newlineIndex = 0
        THEN [outcome |-> "exhausted", buffer |-> buf, chunk |-> NoChunk]
        ELSE LET line == trim(SubSeq(buf, 1, newlineIndex - 1))
                 rest == SubSeq(buf, newlineIndex + 1, Len(buf))
             IN  IF ~startsWithData(line) THEN innerLoop(rest)
                 ELSE LET dataContent == trim(substring5(line))
                          jsonData == JSONparse(dataContent)
                      IN  IF dataContent = <<DONE>>
                          THEN [outcome |-> "done", buffer |-> rest,
                                chunk |-> NoChunk]
                          ELSE IF jsonData.ok
                          THEN [outcome |-> "write", buffer |-> rest,
                                chunk |-> MakeChunk(jsonData)]
                          ELSE innerLoop(rest)

(***************************************************************************)
(* Log entries: one per I/O operation, res "pending" until it settles.     *)
(***************************************************************************)
Op(op, kind, chunk) ==
    [op |-> op, kind |-> kind, res |-> "pending",
     content |-> chunk.content, finish_reason |-> chunk.finish_reason]

ReadOp == Op("read", "-", NoChunk)                \* reader.read(), chat.ts:148
ChunkWriteOp(chunk) == Op("write", "chunk", chunk) \* writer.write, chat.ts:189
DoneWriteOp == Op("write", "done", NoChunk)        \* writer.write, chat.ts:222
AbortOp == Op("abort", "-", NoChunk)               \* writer.abort
CloseOp == Op("close", "-", NoChunk)               \* writer.close
CancelOp == Op("cancel", "-", NoChunk)             \* reader.cancel, chat.ts:246
TextOp == Op("text", "-", NoChunk)                 \* response.text(), chat.ts:267

Settle(lg, r) == [lg EXCEPT ![Len(lg)].res = r]

\* The log with a reader.read() issued.  A run of consecutive reads, between
\* which the task issued nothing else, is kept as one entry, which stands for
\* the run's latest read.
IssueRead(lg) ==
    IF lg # <<>> /\ lg[Len(lg)].op = "read"
    THEN Settle(lg, "pending")
    ELSE Append(lg, ReadOp)

(***************************************************************************)
(* parseSSEResponse (utils, chat.ts:496-509).                              *)
(***************************************************************************)
\* responseText.split("\n")
RECURSIVE split(_)
split(s) ==
    LET i == indexOfNewline(s)
    IN  IF i = 0 THEN <<s>>
        ELSE <<SubSeq(s, 1, i - 1)>> \o split(SubSeq(s, i + 1, Len(s)))

\* one pass of the for loop's body, chat.ts:499-506
parseLine(fullTextSoFar, line) ==
    IF startsWithData(line)
    THEN LET jsonData == JSONparse(trim(substring5(line)))
         IN  IF jsonData.ok /\ jsonData.hasText /\ jsonData.text # <<>>
             THEN fullTextSoFar \o jsonData.text
             ELSE fullTextSoFar
    ELSE fullTextSoFar

RECURSIVE parseLines(_, _)
parseLines(fullTextSoFar, ls) ==
    IF ls = <<>> THEN fullTextSoFar
    ELSE parseLines(parseLine(fullTextSoFar, Head(ls)), Tail(ls))

parseSSEResponse(responseText) == parseLines(<<>>, split(responseText))

(***************************************************************************)
(* Initial states: handleChatCompletions has received a 2xx vendor         *)
(* response and called handleStreamingResponse or                          *)
(* handleNonStreamingResponse (chat.ts:108-110).  The streaming task has   *)
(* run to its first await: writer.close() when there is no body            *)
(* (chat.ts:132-138), the first reader.read() otherwise (chat.ts:148).     *)
(***************************************************************************)
\* index.ts:14-19
InitialBackendState ==
    [isWorking |-> TRUE, lastCheckTime |-> 0, lastSuccessTime |-> 0,
     lastFailureTime |-> 0]

\* no request has arrived
NoRelay ==
    /\ envVars = <<>>
    /\ backendState = InitialBackendState
    /\ clock = 0
    /\ requests = <<>>
    /\ vendorCalls = <<>>

\* no helper call is under way
NoCall ==
    /\ fn = "none"
    /\ args = <<>>
    /\ result = <<>>
    /\ returned = FALSE

LineLists == UNION {[1..n -> Kinds] : n \in 0..MaxLines}

Init ==
    /\ stream \in BOOLEAN
    /\ hasBody \in BOOLEAN
    /\ lines \in LineLists
    /\ terminated \in BOOLEAN
    /\ lines = <<>> => terminated
    /\ ~hasBody => lines = <<>>
    /\ upstream = Render(lines, terminated)
    /\ buffer = <<>>
    /\ streamFinished = FALSE
    /\ aborted = FALSE
    /\ stopReason = "none"
    /\ fullText = <<>>
    /\ carried = FALSE
    /\ log = IF ~stream THEN <<TextOp>>
             ELSE IF hasBody THEN <<ReadOp>> ELSE <<CloseOp>>
    /\ pc = IF ~stream THEN "awaitText"
            ELSE IF hasBody THEN "awaitRead" ELSE "awaitCloseNoBody"
    /\ NoCall
    /\ NoRelay

(***************************************************************************)
(* The task from the inner loop's condition (chat.ts:157) to its next      *)
(* await, with `buf` the buffer and `lg` the log so far.                   *)
(***************************************************************************)
RunInnerLoop(buf, lg) ==
    LET r == innerLoop(buf)
    IN  /\ buffer' = r.buffer
        /\ aborted' = aborted
        /\ IF r.outcome = "write"
           THEN \* chat.ts:189: await writer.write(chunk)
                /\ log' = Append(lg, ChunkWriteOp(r.chunk))
                /\ pc' = "awaitWrite"
                /\ UNCHANGED <<streamFinished, stopReason, carried>>
           ELSE IF r.outcome = "done"
           THEN \* chat.ts:164-167, then 220-222: await writer.write("[DONE]")
                /\ streamFinished' = TRUE
                /\ stopReason' = "vendorDone"
                /\ log' = Append(lg, DoneWriteOp)
                /\ pc' = "awaitDoneWrite"
                /\ carried' = carried
           ELSE \* chat.ts:147-148: the next reader.read()
                /\ log' = IssueRead(lg)
                /\ pc' = "awaitRead"
                /\ carried' = (carried \/ r.buffer # <<>>)
                /\ UNCHANGED <<streamFinished, stopReason>>

\* ReadResolvesData with the buffer overwritten (`buffer =` for `buffer +=`,
\* chat.ts:154): nothing is carried over from the read before
ReadResolvesData_NoCarryOver ==
    /\ pc = "awaitRead"
    /\ \E k \in 1..Len(upstream) :
          /\ upstream' = SubSeq(upstream, k + 1, Len(upstream))
          /\ RunInnerLoop(SubSeq(upstream, 1, k), Settle(log, "data"))
    /\ UNCHANGED <<stream, hasBody, lines, terminated, fullText>>
    /\ UNCHANGED <<callVars, relayVars>>

\* ReadResolvesData with the next step started while the read is pending
ReadResolvesData_ReadAhead ==
    /\ pc = "awaitRead"
    /\ \E k \in 1..Len(upstream) :
          /\ upstream' = SubSeq(upstream, k + 1, Len(upstream))
          /\ RunInnerLoop(buffer \o SubSeq(upstream, 1, k), log)
    /\ UNCHANGED <<stream, hasBody, lines, terminated, fullText>>
    /\ UNCHANGED <<callVars, relayVars>>

\* chat.ts:148-159: read() yields the next lexemes of the body
ReadResolvesData ==
    /\ pc = "awaitRead"
    /\ \E k \in 1..Len(upstream) :
          /\ upstream' = SubSeq(upstream, k + 1, Len(upstream))
          /\ RunInnerLoop(buffer \o SubSeq(upstream, 1, k), Settle(log, "data"))
    /\ UNCHANGED <<stream, hasBody, lines, terminated, fullText>>
    /\ UNCHANGED <<callVars, relayVars>>

\* ReadResolvesDone without the terminator: the writer is closed right away
ReadResolvesDone_NoTerminator ==
    /\ pc = "awaitRead"
    /\ upstream = <<>>
    /\ streamFinished' = TRUE
    /\ stopReason' = "eof"
    /\ log' = Append(Settle(log, "done"), CloseOp)
    /\ pc' = "awaitClose"
    /\ UNCHANGED <<stream, hasBody, lines, terminated, upstream, buffer,
                   aborted, fullText, carried>>
    /\ UNCHANGED <<callVars, relayVars>>

\* chat.ts:149-152, then 220-222: end of the body
ReadResolvesDone ==
    /\ pc = "awaitRead"
    /\ upstream = <<>>
    /\ streamFinished' = TRUE
    /\ stopReason' = "eof"
    /\ log' = Append(Settle(log, "done"), DoneWriteOp)
    /\ pc' = "awaitDoneWrite"
    /\ UNCHANGED <<stream, hasBody, lines, terminated, upstream, buffer,
                   aborted, fullText, carried>>
    /\ UNCHANGED <<callVars, relayVars>>

\* ReadRejects with the error swallowed: the stream is ended as if complete
ReadRejects_EndsNormally ==
    /\ pc = "awaitRead"
    /\ stopReason' = "readError"
    /\ log' = Append(Settle(log, "error"), DoneWriteOp)
    /\ pc' = "awaitDoneWrite"
    /\ UNCHANGED <<stream, hasBody, lines, terminated, upstream, buffer,
                   streamFinished, aborted, fullText, carried>>
    /\ UNCHANGED <<callVars, relayVars>>

\* ReadRejects without the outer catch and the finally block: the task dies
ReadRejects_Uncaught ==
    /\ pc = "awaitRead"
    /\ stopReason' = "readError"
    /\ log' = Settle(log, "error")
    /\ pc' = "end"
    /\ UNCHANGED <<stream, hasBody, lines, terminated, upstream, buffer,
                   streamFinished, aborted, fullText, carried>>
    /\ UNCHANGED <<callVars, relayVars>>

\* chat.ts:231-236: read() throws; the outer catch aborts the writer
ReadRejects ==
    /\ pc = "awaitRead"
    /\ stopReason' = "readError"
    /\ IF ~aborted
       THEN /\ log' = Append(Settle(log, "error"), AbortOp)
            /\ pc' = "awaitAbort"
       ELSE /\ log' = Append(Settle(log, "error"), CancelOp)
            /\ pc' = "awaitCancel"
    /\ UNCHANGED <<stream, hasBody, lines, terminated, upstream, buffer,
                   streamFinished, aborted, fullText, carried>>
    /\ UNCHANGED <<callVars, relayVars>>

\* ChunkWriteResolves without the finish_reason check of chat.ts:202-208
ChunkWriteResolves_IgnoreFinish ==
    /\ pc = "awaitWrite"
    /\ RunInnerLoop(buffer, Settle(log, "ok"))
    /\ UNCHANGED <<stream, hasBody, lines, terminated, upstream, fullText>>
    /\ UNCHANGED <<callVars, relayVars>>

\* chat.ts:189-191 and 202-208: the chunk is written
ChunkWriteResolves ==
    /\ pc = "awaitWrite"
    /\ IF log[Len(log)].finish_reason # NULL
       THEN /\ streamFinished' = TRUE
            /\ stopReason' = "finish"
            /\ log' = Append(Settle(log, "ok"), DoneWriteOp)
            /\ pc' = "awaitDoneWrite"
            /\ UNCHANGED <<buffer, aborted, carried>>
       ELSE RunInnerLoop(buffer, Settle(log, "ok"))
    /\ UNCHANGED <<stream, hasBody, lines, terminated, upstream, fullText>>
    /\ UNCHANGED <<callVars, relayVars>>

\* ChunkWriteRejects with the failure only logged: the loop goes on
ChunkWriteRejects_Continue ==
    /\ pc = "awaitWrite"
    /\ RunInnerLoop(buffer, Settle(log, "fail"))
    /\ UNCHANGED <<stream, hasBody, lines, terminated, upstream, fullText>>
    /\ UNCHANGED <<callVars, relayVars>>

\* chat.ts:192-200: the write fails
ChunkWriteRejects ==
    /\ pc = "awaitWrite"
    /\ aborted' = TRUE
    /\ log' = Append(Settle(log, "fail"), AbortOp)
    /\ pc' = "awaitAbort"
    /\ streamFinished' = TRUE
    /\ stopReason' = "writeFail"
    /\ UNCHANGED <<stream, hasBody, lines, terminated, upstream, buffer,
                   fullText, carried>>
    /\ UNCHANGED <<callVars, relayVars>>

\* chat.ts:222, then 239-243: the terminator is written; close the writer
DoneWriteResolves ==
    /\ pc = "awaitDoneWrite"
    /\ IF ~aborted
       THEN /\ log' = Append(Settle(log, "ok"), CloseOp)
            /\ pc' = "awaitClose"
       ELSE /\ log' = Append(Settle(log, "ok"), CancelOp)
            /\ pc' = "awaitCancel"
    /\ UNCHANGED <<stream, hasBody, lines, terminated, upstream, buffer,
                   streamFinished, aborted, stopReason, fullText, carried>>
    /\ UNCHANGED <<callVars, relayVars>>

\* chat.ts:223-229: the terminator's write fails
DoneWriteRejects ==
    /\ pc = "awaitDoneWrite"
    /\ aborted' = TRUE
    /\ log' = Append(Settle(log, "fail"), AbortOp)
    /\ pc' = "awaitAbort"
    /\ UNCHANGED <<stream, hasBody, lines, terminated, upstream, buffer,
                   streamFinished, stopReason, fullText, carried>>
    /\ UNCHANGED <<callVars, relayVars>>

\* AbortSettles with the finally block closing the writer all the same
AbortSettles_ThenClose ==
    /\ pc = "awaitAbort"
    /\ aborted' = TRUE
    /\ log' = Append(Settle(log, "ok"), CloseOp)
    /\ pc' = "awaitClose"
    /\ UNCHANGED <<stream, hasBody, lines, terminated, upstream, buffer,
                   streamFinished, stopReason, fullText, carried>>
    /\ UNCHANGED <<callVars, relayVars>>

\* writer.abort settles (its failure is swallowed: chat.ts:195-197, 226-228,
\* 234-236); aborted is set by now on every path (chat.ts:194, 225, 237), so
\* the finally block skips writer.close(): reader.cancel(), chat.ts:245-246
AbortSettles ==
    /\ pc = "awaitAbort"
    /\ aborted' = TRUE
    /\ log' = Append(Settle(log, "ok"), CancelOp)
    /\ pc' = "awaitCancel"
    /\ UNCHANGED <<stream, hasBody, lines, terminated, upstream, buffer,
                   streamFinished, stopReason, fullText, carried>>
    /\ UNCHANGED <<callVars, relayVars>>

\* CloseSettles without the reader.cancel() of the finally block
CloseSettles_NoCancel ==
    /\ pc = "awaitClose"
    /\ log' = Settle(log, "ok")
    /\ pc' = "end"
    /\ UNCHANGED <<stream, hasBody, lines, terminated, upstream, buffer,
                   streamFinished, aborted, stopReason, fullText, carried>>
    /\ UNCHANGED <<callVars, relayVars>>

\* chat.ts:240-246: writer.close() settles, then reader.cancel()
CloseSettles ==
    /\ pc = "awaitClose"
    /\ log' = Append(Settle(log, "ok"), CancelOp)
    /\ pc' = "awaitCancel"
    /\ UNCHANGED <<stream, hasBody, lines, terminated, upstream, buffer,
                   streamFinished, aborted, stopReason, fullText, carried>>
    /\ UNCHANGED <<callVars, relayVars>>

\* chat.ts:134-137: without a body, writer.close() settles and the task returns
CloseNoBodySettles ==
    /\ pc = "awaitCloseNoBody"
    /\ log' = Settle(log, "ok")
    /\ pc' = "end"
    /\ UNCHANGED <<stream, hasBody, lines, terminated, upstream, buffer,
                   streamFinished, aborted, stopReason, fullText, carried>>
    /\ UNCHANGED <<callVars, relayVars>>

\* chat.ts:245-250: reader.cancel() settles and the task ends
CancelSettles ==
    /\ pc = "awaitCancel"
    /\ log' = Settle(log, "ok")
    /\ pc' = "end"
    /\ UNCHANGED <<stream, hasBody, lines, terminated, upstream, buffer,
                   streamFinished, aborted, stopReason, fullText, carried>>
    /\ UNCHANGED <<callVars, relayVars>>

\* handleNonStreamingResponse, chat.ts:267-268 and 280: the whole body is
\* read and parsed; fullText becomes the message content
NonStreamingResponse ==
    /\ pc = "awaitText"
    /\ fullText' = parseSSEResponse(upstream)
    /\ upstream' = <<>>
    /\ log' = Settle(log, "ok")
    /\ pc' = "end"
    /\ UNCHANGED <<stream, hasBody, lines, terminated, buffer, streamFinished,
                   aborted, stopReason, carried>>
    /\ UNCHANGED <<callVars, relayVars>>

Next ==
    \/ ReadResolvesData
    \/ ReadResolvesDone
    \/ ReadRejects
    \/ ChunkWriteResolves
    \/ ChunkWriteRejects
    \/ DoneWriteResolves
    \/ DoneWriteRejects
    \/ AbortSettles
    \/ CloseSettles
    \/ CloseNoBodySettles
    \/ CancelSettles
    \/ NonStreamingResponse

Spec == Init /\ [][Next]_vars

(***************************************************************************)
(* Vocabulary of the properties.                                           *)
(***************************************************************************)
IsChunkWrite(e) == e.op = "write" /\ e.kind = "chunk"
IsDoneWrite(e) == e.op = "write" /\ e.kind = "done"
IsWriterOp(e) == e.op \in {"write", "close", "abort"}

\* no downstream write has failed and no upstream read has thrown
NoFailure == \A i \in 1..Len(log) : log[i].res \notin {"fail", "error"}

\* a streaming run over a vendor body has ended
StreamEnded == stream /\ hasBody /\ pc = "end"

ChunkOf(e) == [content |-> e.content, finish_reason |-> e.finish_reason]

RECURSIVE ChunksIn(_)
ChunksIn(lg) ==
    IF lg = <<>> THEN <<>>
    ELSE IF IsChunkWrite(Head(lg))
         THEN <<ChunkOf(Head(lg))>> \o ChunksIn(Tail(lg))
         ELSE ChunksIn(Tail(lg))

\* the chunks whose write the task issued, in issue order
ChunksIssued == ChunksIn(log)

\* the chunks the downstream accepted, in order
ChunksWritten == ChunksIn(SelectSeq(log, LAMBDA e : e.res = "ok"))

IsPrefix(s, t) == Len(s) <= Len(t) /\ SubSeq(t, 1, Len(s)) = s

(***************************************************************************)
(* C1.  A streaming run over a vendor body in which no write fails and no  *)
(* read throws writes exactly one "data: [DONE]" line, after every chunk,  *)
(* as the last write before the writer is closed: the writer's operations  *)
(* are the chunk writes, then the terminator, then close().                *)
(***************************************************************************)
C1_ExactlyOneTerminator ==
    (StreamEnded /\ NoFailure) =>
        LET w == SelectSeq(log, IsWriterOp)
        IN  /\ Len(w) >= 2
            /\ w[Len(w)].op = "close"
            /\ IsDoneWrite(w[Len(w) - 1]) /\ w[Len(w) - 1].res = "ok"
            /\ \A i \in 1..(Len(w) - 2) : IsChunkWrite(w[i])

\* a run that ended at the upstream's end, without a terminator from the
\* vendor, after two chunks
C1_Witness ==
    /\ StreamEnded /\ NoFailure
    /\ stopReason = "eof"
    /\ Len(ChunksWritten) = 2
    /\ Cardinality({i \in 1..Len(log) : IsDoneWrite(log[i])}) = 1

(***************************************************************************)
(* What the vendor's lines mean, read off LineKinds: the reference the     *)
(* translator's output is compared with.                                   *)
(***************************************************************************)
\* the lines of the body that are followed by "\n"
CompleteLines ==
    IF terminated THEN lines ELSE SubSeq(lines, 1, Len(lines) - 1)

EventChunk(k) ==
    [content |-> LineKinds[k].text, finish_reason |-> LineKinds[k].finish_reason]

\* the chunks of all the JSON events among the lines `ls`, in order
RECURSIVE VendorEvents(_)
VendorEvents(ls) ==
    IF ls = <<>> THEN <<>>
    ELSE IF LineKinds[Head(ls)].ev = "event"
         THEN <<EventChunk(Head(ls))>> \o VendorEvents(Tail(ls))
         ELSE VendorEvents(Tail(ls))

\* the chunks of the JSON events up to the first terminator: a "[DONE]" line
\* (exclusive) or an event with a non-null finish_reason (inclusive)
RECURSIVE ExpectedChunks(_)
ExpectedChunks(ls) ==
    IF ls = <<>> THEN <<>>
    ELSE LET k == Head(ls)
         IN  IF LineKinds[k].ev = "done" THEN <<>>
             ELSE IF LineKinds[k].ev = "event"
             THEN <<EventChunk(k)>> \o
                  (IF LineKinds[k].finish_reason # NULL THEN <<>>
                   ELSE ExpectedChunks(Tail(ls)))
             ELSE ExpectedChunks(Tail(ls))

(***************************************************************************)
(* C2.  Once the write of a chunk has failed, the task issues no further   *)
(* reader.read(), writes no further chunk (no line left in the buffer is   *)
(* processed) and never writes "data: [DONE]": the next operation is       *)
(* writer.abort(), and only reader.cancel() follows it.                    *)
(***************************************************************************)
C2_WriteFailureStops ==
    \A i \in 1..Len(log) :
        (IsChunkWrite(log[i]) /\ log[i].res = "fail") =>
            /\ i < Len(log)
            /\ log[i + 1].op = "abort"
            /\ \A j \in (i + 1)..Len(log) : log[j].op \in {"abort", "cancel"}

\* the write failed while a complete event was still in the buffer and part
\* of the body was still unread, and the task has ended
C2_Witness ==
    /\ stream /\ pc = "end"
    /\ \E i \in 1..Len(log) : IsChunkWrite(log[i]) /\ log[i].res = "fail"
    /\ innerLoop(buffer).outcome = "write"
    /\ upstream # <<>>

(***************************************************************************)
(* C3.  The chunks are written in the order of their vendor events, one    *)
(* chunk per event: in every state the chunks issued so far are an initial *)
(* part of the sequence of the body's events.                              *)
(***************************************************************************)
C3_ChunksInEventOrder ==
    stream => IsPrefix(ChunksIssued, ExpectedChunks(CompleteLines))

\* three events, "a" then "b" then "a", were written in that order
C3_Witness ==
    /\ StreamEnded
    /\ ChunksWritten = << [content |-> <<"a">>, finish_reason |-> NULL],
                          [content |-> <<"b">>, finish_reason |-> NULL],
                          [content |-> <<"a">>, finish_reason |-> NULL] >>

(***************************************************************************)
(* C4.  When the chunk of a vendor event with a non-null finish_reason is  *)
(* written, it carries that finish_reason, and afterwards no chunk is      *)
(* written and no read is issued: the next write, and the last one, is     *)
(* the "data: [DONE]" terminator.  The n-th chunk write is the one of the  *)
(* body's n-th JSON event.                                                 *)
(***************************************************************************)
C4_FinishReasonEndsStream ==
    \A i \in 1..Len(log) :
        LET n == Len(ChunksIn(SubSeq(log, 1, i)))
            ev == VendorEvents(CompleteLines)
        IN  ( /\ stream
              /\ IsChunkWrite(log[i]) /\ log[i].res = "ok"
              /\ n <= Len(ev)
              /\ ev[n].finish_reason # NULL ) =>
                /\ log[i].finish_reason = ev[n].finish_reason
                /\ i < Len(log)
                /\ IsDoneWrite(log[i + 1])
                /\ \A j \in (i + 1)..Len(log) :
                      log[j].op # "read" /\ ~IsChunkWrite(log[j])
                /\ \A j \in (i + 2)..Len(log) : log[j].op # "write"

\* the run ended on a finish_reason "stop" with another complete event still
\* in the carry-over buffer and part of the body unread
C4_Witness ==
    /\ StreamEnded /\ NoFailure
    /\ stopReason = "finish"
    /\ \E i \in 1..Len(log) :
          IsChunkWrite(log[i]) /\ log[i].finish_reason = "stop"
    /\ innerLoop(buffer).outcome = "write"
    /\ upstream # <<>>

RECURSIVE FirstTerminator(_)
FirstTerminator(ls) ==
    IF ls = <<>> THEN "none"
    ELSE LET k == LineKinds[Head(ls)]
         IN  IF k.ev = "done" THEN "done"
             ELSE IF k.ev = "event" /\ k.finish_reason # NULL THEN "finish"
             ELSE FirstTerminator(Tail(ls))

DoneWrites == {i \in 1..Len(log) : IsDoneWrite(log[i])}

\* no failure other than that of the terminator's write
NoFailureBeforeTerminator ==
    \A i \in 1..Len(log) :
        log[i].res \in {"fail", "error"} => IsDoneWrite(log[i])

(***************************************************************************)
(* C5.  A vendor line "data: [DONE]" produces no chunk and stops the read  *)
(* loop: when the loop has stopped on it, the chunks issued are exactly    *)
(* those of the events before it, the terminator write has been issued     *)
(* exactly once, and no read and no other write follows it.  A run over a  *)
(* body whose first terminator is a "[DONE]" line, with no failure before  *)
(* the terminator write, does stop on that line.                           *)
(***************************************************************************)
C5_VendorDoneStops ==
    /\ stopReason = "vendorDone" =>
          /\ FirstTerminator(CompleteLines) = "done"
          /\ ChunksIssued = ExpectedChunks(CompleteLines)
          /\ Cardinality(DoneWrites) = 1
          /\ \A i \in DoneWrites : \A j \in (i + 1)..Len(log) :
                log[j].op \notin {"read", "write"}
          /\ (pc = "end" /\ NoFailure) =>
                \E i \in DoneWrites : log[i].res = "ok"
    /\ ( /\ StreamEnded /\ NoFailureBeforeTerminator
         /\ FirstTerminator(CompleteLines) = "done" ) =>
            stopReason = "vendorDone"

\* the run stopped on the vendor's "[DONE]" with a complete event behind it
\* in the buffer and part of the body unread, and the terminator was written
C5_Witness ==
    /\ StreamEnded /\ NoFailure
    /\ stopReason = "vendorDone"
    /\ innerLoop(buffer).outcome = "write"
    /\ upstream # <<>>
    /\ \E i \in DoneWrites : log[i].res = "ok"

(***************************************************************************)
(* C6.  If a reader.read() throws, the writer is aborted and never closed, *)
(* and no "data: [DONE]" is written.                                       *)
(***************************************************************************)
C6_ReadErrorAborts ==
    \A i \in 1..Len(log) :
        (log[i].op = "read" /\ log[i].res = "error") =>
            /\ i < Len(log)
            /\ log[i + 1].op = "abort"
            /\ \A j \in 1..Len(log) :
                  log[j].op # "close" /\ ~IsDoneWrite(log[j])
            /\ pc = "end" => aborted

\* a read threw after a chunk had been written, and the task has ended
C6_Witness ==
    /\ stream /\ pc = "end"
    /\ \E i \in 1..Len(log) : log[i].op = "read" /\ log[i].res = "error"
    /\ Len(ChunksWritten) >= 1

WithoutBad(ls) == SelectSeq(ls, LAMBDA k : LineKinds[k].ev # "bad")

HasBad(ls) == \E i \in 1..Len(ls) : LineKinds[ls[i]].ev = "bad"

(***************************************************************************)
(* C7.  A data line whose payload is not valid JSON produces no chunk and  *)
(* neither ends nor aborts the stream: a run without I/O failure over a    *)
(* body with such a line writes the chunks the body has without it, then   *)
(* the terminator, and closes the writer.                                  *)
(***************************************************************************)
C7_MalformedSkipped ==
    (StreamEnded /\ NoFailure /\ HasBad(CompleteLines)) =>
        /\ ChunksWritten = ExpectedChunks(WithoutBad(CompleteLines))
        /\ \E i \in DoneWrites : log[i].res = "ok"
        /\ \A j \in 1..Len(log) : log[j].op # "abort"
        /\ \E j \in 1..Len(log) : log[j].op = "close"

\* a malformed line between two events: both events' chunks were written
C7_Witness ==
    /\ StreamEnded /\ NoFailure
    /\ Len(lines) = 3
    /\ LineKinds[lines[1]].ev = "event"
    /\ LineKinds[lines[2]].ev = "bad"
    /\ LineKinds[lines[3]].ev = "event"
    /\ Len(ChunksWritten) = 2

\* the chunks of the inner loop run over `buf` with every write succeeding
RECURSIVE ChunksOfBuffer(_)
ChunksOfBuffer(buf) ==
    LET r == innerLoop(buf)
    IN  IF r.outcome = "write"
        THEN <<r.chunk>> \o
             (IF r.chunk.finish_reason # NULL THEN <<>>
              ELSE ChunksOfBuffer(r.buffer))
        ELSE <<>>

(***************************************************************************)
(* C8.  The chunks written depend on the body only, not on how read()      *)
(* splits it: a run without I/O failure, whatever its reads, writes the    *)
(* chunks that the translator gets from the whole body in one buffer,      *)
(* followed by one terminator.                                             *)
(***************************************************************************)
C8_SplitIndependent ==
    (StreamEnded /\ NoFailure) =>
        /\ ChunksWritten = ChunksOfBuffer(Body)
        /\ Cardinality(DoneWrites) = 1
        /\ \A i \in DoneWrites : log[i].res = "ok"

\* a run in which some read ended in the middle of a line, and which wrote
\* two chunks
C8_Witness ==
    /\ StreamEnded /\ NoFailure
    /\ carried
    /\ Len(ChunksWritten) >= 2

RECURSIVE ConcatContents(_)
ConcatContents(chunks) ==
    IF chunks = <<>> THEN <<>>
    ELSE Head(chunks).content \o ConcatContents(Tail(chunks))

NoTerminatorLine ==
    \A i \in 1..Len(lines) :
        /\ LineKinds[lines[i]].ev # "done"
        /\ LineKinds[lines[i]].finish_reason = NULL

(***************************************************************************)
(* C9.  Streaming and non-streaming apply the same framing grammar: for a  *)
(* body with no "[DONE]" line and no event with a non-null finish_reason,  *)
(* the concatenation of the delta contents of a streaming run without I/O  *)
(* failure equals parseSSEResponse of the body.                            *)
(***************************************************************************)
C9_StreamingMatchesNonStreaming ==
    (StreamEnded /\ NoFailure /\ NoTerminatorLine) =>
        ConcatContents(ChunksWritten) = parseSSEResponse(Body)

RECURSIVE TextOfEvents(_)
TextOfEvents(ls) ==
    IF ls = <<>> THEN <<>>
    ELSE (IF LineKinds[Head(ls)].ev = "event"
          THEN LineKinds[Head(ls)].text ELSE <<>>) \o TextOfEvents(Tail(ls))

(***************************************************************************)
(* C10.  In non-streaming mode the message content is the concatenation,   *)
(* in arrival order, of the text fragments of all the well-formed data     *)
(* events of the body, a data event being a line that starts with "data:"  *)
(* once trimmed (the framing grammar); other lines and malformed payloads  *)
(* contribute nothing.                                                     *)
(***************************************************************************)
C10_NonStreamingContent ==
    (~stream /\ pc = "end") => fullText = TextOfEvents(lines)

NoIndentedLine == \A i \in 1..Len(lines) : ~LineKinds[lines[i]].indent

\* The same, for the bodies in which no whitespace precedes "data:".
C10_ContentWithoutIndent ==
    (~stream /\ pc = "end" /\ NoIndentedLine) => fullText = TextOfEvents(lines)

\* C9 for the bodies that end with "\n" and have no whitespace before "data:"
C9_MatchWithoutIndentAndTail ==
    (StreamEnded /\ NoFailure /\ NoTerminatorLine /\ NoIndentedLine /\ terminated)
        => ConcatContents(ChunksWritten) = parseSSEResponse(Body)

\* the kinds of the JSON events among `ls` that the translator processes:
\* those up to the first terminator
RECURSIVE ProcessedEvents(_)
ProcessedEvents(ls) ==
    IF ls = <<>> THEN <<>>
    ELSE LET k == Head(ls)
         IN  IF LineKinds[k].ev = "done" THEN <<>>
             ELSE IF LineKinds[k].ev = "event"
             THEN <<k>> \o (IF LineKinds[k].finish_reason # NULL THEN <<>>
                            ELSE ProcessedEvents(Tail(ls)))
             ELSE ProcessedEvents(Tail(ls))

TextEvents(ls) ==
    SelectSeq(ProcessedEvents(ls), LAMBDA k : LineKinds[k].hasText)

(***************************************************************************)
(* C11 as claimed.  In a streaming run without I/O failure the number of   *)
(* chunks written equals the number of processed events that carry a text  *)
(* fragment, each chunk carrying that fragment.                            *)
(***************************************************************************)
C11_OneChunkPerTextFragment ==
    (StreamEnded /\ NoFailure) =>
        LET ev == TextEvents(CompleteLines)
        IN  /\ Len(ChunksWritten) = Len(ev)
            /\ \A i \in 1..Len(ev) :
                  ChunksWritten[i].content = LineKinds[ev[i]].text

(***************************************************************************)
(* C11 as amended.  In a streaming run without I/O failure exactly one     *)
(* chunk is written per processed JSON event, with or without a text       *)
(* fragment: its delta content is the event's fragment, and the empty      *)
(* string for an event without one.                                        *)
(***************************************************************************)
C11_OneChunkPerEvent ==
    (StreamEnded /\ NoFailure) =>
        LET ev == ProcessedEvents(CompleteLines)
        IN  /\ Len(ChunksWritten) = Len(ev)
            /\ \A i \in 1..Len(ev) :
                  ChunksWritten[i].content =
                      IF LineKinds[ev[i]].hasText
                      THEN LineKinds[ev[i]].text ELSE <<>>

\* an event with a fragment and then one without: two chunks, the second
\* with empty content
C11_Witness ==
    /\ StreamEnded /\ NoFailure
    /\ Len(ProcessedEvents(CompleteLines)) = 2
    /\ Len(TextEvents(CompleteLines)) = 1
    /\ Len(ChunksWritten) = 2
    /\ ChunksWritten[1].content # <<>>
    /\ ChunksWritten[2].content = <<>>

(***************************************************************************)
(* The helpers of utils.ts (chat.ts:312-531).  A string they work on       *)
(* character by character is a sequence of UTF-16 code units; an optional  *)
(* value is None or Some(v).                                               *)
(***************************************************************************)
None == <<>>
Some(v) == <<v>>

\* no response is being translated
NoTranslation ==
    /\ stream = FALSE
    /\ hasBody = FALSE
    /\ lines = <<>>
    /\ terminated = TRUE
    /\ upstream = <<>>
    /\ buffer = <<>>
    /\ streamFinished = FALSE
    /\ aborted = FALSE
    /\ stopReason = "none"
    /\ log = <<>>
    /\ pc = "none"
    /\ carried = FALSE
    /\ fullText = <<>>

MaxStr == 2

\* code units the strings are made of: the ends and the middle of A-Z, a-z
\* and 0-9, their neighbours outside the ranges, and '.'
CharCodes == {46, 47, 48, 52, 53, 57, 58, 64, 65, 77, 78, 90, 91,
              96, 97, 109, 110, 122, 123}

Strings == UNION {[1..n -> CharCodes] : n \in 0..MaxStr}

\* rot13rot5Encode with the digits rotated by 3
rot13rot5Encode_Rot3(str) ==
    [i \in 1..Len(str) |->
        LET charCode == str[i]
        IN  IF charCode >= 65 /\ charCode <= 90
            THEN ((charCode - 65 + 13) % 26) + 65
            ELSE IF charCode >= 97 /\ charCode <= 122
            THEN ((charCode - 97 + 13) % 26) + 97
            ELSE IF charCode >= 48 /\ charCode <= 57
            THEN ((charCode - 48 + 3) % 10) + 48
            ELSE charCode]

\* chat.ts:332-352
rot13rot5Encode(str) ==
    [i \in 1..Len(str) |->
        LET charCode == str[i]
        IN  IF charCode >= 65 /\ charCode <= 90
            THEN ((charCode - 65 + 13) % 26) + 65
            ELSE IF charCode >= 97 /\ charCode <= 122
            THEN ((charCode - 97 + 13) % 26) + 97
            ELSE IF charCode >= 48 /\ charCode <= 57
            THEN ((charCode - 48 + 5) % 10) + 48
            ELSE charCode]

\* a call of rot13rot5Encode (chat.ts:364) returns
CallRot13rot5Encode ==
    /\ fn = "rot13rot5Encode"
    /\ ~returned
    /\ result' = rot13rot5Encode(args)
    /\ returned' = TRUE
    /\ UNCHANGED <<fn, args, translationVars, relayVars>>

(***************************************************************************)
(* calculateSignatureV2 (chat.ts:325-391).  SHA-256 and HMAC-SHA256 are    *)
(* taken as injective: a digest stands for its preimage and a signature    *)
(* for its key and message.                                                *)
(***************************************************************************)
\* chat.ts:328 (the constant, shortened)
DEFAULT_SIGNATURE_SECRET == <<54, 98>>

\* chat.ts:356: crypto.subtle.digest("SHA-256", bodyBytes)
digestSHA256(bytes) == bytes

\* chat.ts:385: crypto.subtle.sign("HMAC", cryptoKey, messageBytes)
signHMAC(secretKey, messageBytes) ==
    [key |-> secretKey, message |-> messageBytes]

hexDigit(n) == IF n < 10 THEN 48 + n ELSE 87 + n

\* chat.ts:357-359: byte.toString(16).padStart(2, "0"), joined
RECURSIVE toHex(_)
toHex(bytes) ==
    IF bytes = <<>> THEN <<>>
    ELSE <<hexDigit(Head(bytes) \div 16), hexDigit(Head(bytes) % 16)>>
             \o toHex(Tail(bytes))

\* Array.prototype.join(".") (chat.ts:365)
RECURSIVE joinDot(_)
joinDot(parts) ==
    IF parts = <<>> THEN <<>>
    ELSE IF Len(parts) = 1 THEN parts[1]
    ELSE parts[1] \o <<46>> \o joinDot(Tail(parts))

\* calculateSignatureV2 signing the timestamp and the body hash only
calculateSignatureV2_NoDeviceId(timestamp, deviceId, bodyStr, signatureSecret) ==
    LET secret == IF signatureSecret = None \/ signatureSecret = Some(<<>>)
                  THEN DEFAULT_SIGNATURE_SECRET
                  ELSE signatureSecret[1]
        hashHex == toHex(digestSHA256(bodyStr))
        message == joinDot(<<rot13rot5Encode(timestamp),
                             rot13rot5Encode(hashHex)>>)
    IN  signHMAC(secret, message)

\* chat.ts:325-391; signatureSecret is None when the argument is undefined
calculateSignatureV2(timestamp, deviceId, bodyStr, signatureSecret) ==
    LET secret == IF signatureSecret = None \/ signatureSecret = Some(<<>>)
                  THEN DEFAULT_SIGNATURE_SECRET
                  ELSE signatureSecret[1]
        hashHex == toHex(digestSHA256(bodyStr))
        message == joinDot(<<rot13rot5Encode(timestamp),
                             rot13rot5Encode(deviceId),
                             rot13rot5Encode(hashHex)>>)
    IN  signHMAC(secret, message)

MaxDeviceId == 2

\* new Date().toISOString() (chat.ts:394), shortened to seconds, '.',
\* milliseconds and 'Z': the values have one length and one '.' each
Timestamps == {<<sec, 46, ms, 90>> : sec \in {48, 49}, ms \in {48, 49}}

\* env.RAYCAST_DEVICE_ID: any string, here of 'a' and '.'
DeviceIds == UNION {[1..n -> {97, 46}] : n \in 0..MaxDeviceId}

\* JSON.stringify(raycastRequest) (chat.ts:82): '{}' and '{""}' stand for
\* two request bodies
BodyStrings == {<<123, 125>>, <<123, 34, 34, 125>>}

\* env.RAYCAST_SIGNATURE_SECRET: unset, empty, the default constant, another
SignatureSecrets ==
    {None, Some(<<>>), Some(DEFAULT_SIGNATURE_SECRET), Some(<<115>>)}

SignatureArgs ==
    [timestamp : Timestamps, deviceId : DeviceIds, bodyStr : BodyStrings,
     signatureSecret : SignatureSecrets]

\* a call of calculateSignatureV2 (chat.ts:409) returns
CallCalculateSignatureV2 ==
    /\ fn = "calculateSignatureV2"
    /\ ~returned
    /\ result' = calculateSignatureV2(args.timestamp, args.deviceId,
                                      args.bodyStr, args.signatureSecret)
    /\ returned' = TRUE
    /\ UNCHANGED <<fn, args, translationVars, relayVars>>

(***************************************************************************)
(* getRaycastHeaders (chat.ts:393-412).  `now` is the clock's value at     *)
(* chat.ts:394; bodyString is None for null.                               *)
(***************************************************************************)
FixedHeaders(env, timestamp, deviceId) ==
    ("Host" :> "backend.raycast.com") @@
    ("Accept" :> "application/json") @@
    ("User-Agent" :> "USER_AGENT") @@
    ("Authorization" :> <<"Bearer ", env.RAYCAST_BEARER_TOKEN>>) @@
    ("Accept-Language" :> "en-US,en;q=0.9") @@
    ("Content-Type" :> "application/json") @@
    ("Connection" :> "close") @@
    ("X-Raycast-Timestamp" :> timestamp) @@
    ("X-Raycast-DeviceId" :> deviceId)

\* getRaycastHeaders signing also when there is no body
getRaycastHeaders_AlwaysSign(env, bodyString, now) ==
    LET timestamp == now
        deviceId == env.RAYCAST_DEVICE_ID
        headers == FixedHeaders(env, timestamp, deviceId)
        bodyStr == IF bodyString = None THEN <<>> ELSE bodyString[1]
    IN  ("X-Raycast-Signature-v2" :>
             calculateSignatureV2(timestamp, deviceId, bodyStr,
                                  env.RAYCAST_SIGNATURE_SECRET)) @@ headers

getRaycastHeaders(env, bodyString, now) ==
    LET timestamp == now
        deviceId == env.RAYCAST_DEVICE_ID
        headers == FixedHeaders(env, timestamp, deviceId)
    IN  IF bodyString # None /\ bodyString # Some(<<>>)
        THEN ("X-Raycast-Signature-v2" :>
                 calculateSignatureV2(timestamp, deviceId, bodyString[1],
                                      env.RAYCAST_SIGNATURE_SECRET)) @@ headers
        ELSE headers

Envs ==
    [RAYCAST_BEARER_TOKEN : {"token"}, RAYCAST_DEVICE_ID : DeviceIds,
     RAYCAST_SIGNATURE_SECRET : SignatureSecrets]

\* the calls the relay makes: fetchModels passes no body (chat.ts:426),
\* handleChatCompletions the request body (chat.ts:85)
HeadersArgs ==
    [env : Envs, bodyString : {None} \cup {Some(b) : b \in BodyStrings},
     now : Timestamps]

\* a call of getRaycastHeaders (chat.ts:85, chat.ts:426) returns
CallGetRaycastHeaders ==
    /\ fn = "getRaycastHeaders"
    /\ ~returned
    /\ result' = getRaycastHeaders(args.env, args.bodyString, args.now)
    /\ returned' = TRUE
    /\ UNCHANGED <<fn, args, translationVars, relayVars>>

(***************************************************************************)
(* convertMessages (chat.ts:478-494).                                      *)
(***************************************************************************)
MaxMessages == 3

\* the roles of types.ts:16 and one that is none of them
Roles == {"system", "user", "assistant", "tool"}

Contents == {"c1", "c2"}

OpenAIMessages == [role : Roles, content : Contents]

MessageLists == UNION {[1..n -> OpenAIMessages] : n \in 0..MaxMessages}

\* the loop body of convertMessages, pushing every message that is not
\* taken as the system instruction
convertStep_PushAll(acc, msg, index) ==
    IF msg.role = "system" /\ index = 0
    THEN [acc EXCEPT !.systemInstruction = msg.content]
    ELSE [acc EXCEPT !.raycastMessages =
             Append(@, [author |-> msg.role,
                        content |-> [text |-> msg.content]])]

\* chat.ts:483-490: the loop body, index counted from 0
convertStep(acc, msg, index) ==
    IF msg.role = "system" /\ index = 0
    THEN [acc EXCEPT !.systemInstruction = msg.content]
    ELSE IF msg.role = "user" \/ msg.role = "assistant"
    THEN [acc EXCEPT !.raycastMessages =
             Append(@, [author |-> msg.role,
                        content |-> [text |-> msg.content]])]
    ELSE acc

\* convertMessages taking the last system message as the instruction
RECURSIVE convertLoop_AnySystem(_, _, _)
convertLoop_AnySystem(acc, openaiMessages, index) ==
    IF index = Len(openaiMessages) THEN acc
    ELSE convertLoop_AnySystem(
             convertStep(acc, openaiMessages[index + 1],
                         IF openaiMessages[index + 1].role = "system"
                         THEN 0 ELSE index),
             openaiMessages, index + 1)

\* chat.ts:482: for (const [index, msg] of openaiMessages.entries())
RECURSIVE convertLoop(_, _, _)
convertLoop(acc, openaiMessages, index) ==
    IF index = Len(openaiMessages) THEN acc
    ELSE convertLoop(convertStep(acc, openaiMessages[index + 1], index),
                     openaiMessages, index + 1)

convertMessages(openaiMessages) ==
    convertLoop([raycastMessages |-> <<>>, systemInstruction |-> "markdown"],
                openaiMessages, 0)

\* a call of convertMessages (chat.ts:66) returns
CallConvertMessages ==
    /\ fn = "convertMessages"
    /\ ~returned
    /\ result' = convertMessages(args)
    /\ returned' = TRUE
    /\ UNCHANGED <<fn, args, translationVars, relayVars>>

(***************************************************************************)
(* getProviderInfo (chat.ts:470-476).  The catalog `models` is a Map, here *)
(* a function from its keys to its entries.                                *)
(***************************************************************************)
DEFAULT_PROVIDER == "openai"
DEFAULT_INTERNAL_MODEL == "gpt-4o-mini"

ModelIds == {"openai-gpt-4o-mini", "anthropic-claude", "unknown-model"}

ModelInfos ==
    [provider : {"openai", "anthropic"}, model : {"gpt-4o-mini", "claude"}]

\* the catalogs fetchModels can build (chat.ts:440-461), the empty one too
Catalogs == UNION {[ids -> ModelInfos] : ids \in SUBSET ModelIds}

\* getProviderInfo returning the default pair for every model id
getProviderInfo_AlwaysDefault(modelId, models) ==
    [info |-> [provider |-> DEFAULT_PROVIDER, model |-> DEFAULT_INTERNAL_MODEL],
     models |-> models]

\* chat.ts:470-476: the entry returned, and the catalog after the call
getProviderInfo(modelId, models) ==
    IF modelId \in DOMAIN models
    THEN [info |-> models[modelId], models |-> models]
    ELSE [info |-> [provider |-> DEFAULT_PROVIDER,
                    model |-> DEFAULT_INTERNAL_MODEL],
          models |-> models]

ProviderArgs == [modelId : ModelIds, models : Catalogs]

\* a call of getProviderInfo (chat.ts:57) returns
CallGetProviderInfo ==
    /\ fn = "getProviderInfo"
    /\ ~returned
    /\ result' = getProviderInfo(args.modelId, args.models)
    /\ returned' = TRUE
    /\ UNCHANGED <<fn, args, translationVars, relayVars>>

(***************************************************************************)
(* fetchModels (chat.ts:422-468).  `response` is what the vendor's answer  *)
(* parses to: Some(list of model data), or None when the fetch fails, the  *)
(* status is not 2xx or the answer has no `models` (chat.ts:429-439,       *)
(* 464-467).                                                               *)
(***************************************************************************)
MaxModels == 2

\* values of env.ADVANCED and env.INCLUDE_DEPRECATED: unset, or a string
FlagValues == {None, Some("false"), Some("FALSE"), Some("true")}

\* String.prototype.toLowerCase on the flag strings
toLowerCase(str) == IF str = "FALSE" THEN "false" ELSE str

\* env.X?.toLowerCase() !== "false" (chat.ts:442-443)
flagOn(value) ==
    IF value = None THEN TRUE ELSE toLowerCase(value[1]) # "false"

RawModelData ==
    [id : {"m1", "m2"}, provider : {"openai"}, model : {"gpt"},
     requires_better_ai : BOOLEAN, availability : {"public", "deprecated"}]

RawModelLists == UNION {[1..n -> RawModelData] : n \in 0..MaxModels}

\* Map.prototype.set
mapSet(models, key, value) == (key :> value) @@ models

\* chat.ts:447-459: the loop over parsedResponse.models
RECURSIVE filterModels(_, _, _, _)
filterModels(models, list, showAdvanced, includeDeprecated) ==
    IF list = <<>> THEN models
    ELSE LET modelData == Head(list)
             isPremium == modelData.requires_better_ai
             isDeprecated == modelData.availability = "deprecated"
         IN  filterModels(
                 IF (showAdvanced \/ ~isPremium)
                    /\ (includeDeprecated \/ ~isDeprecated)
                 THEN mapSet(models, modelData.id,
                             [provider |-> modelData.provider,
                              model |-> modelData.model])
                 ELSE models,
                 Tail(list), showAdvanced, includeDeprecated)

fetchModels(env, response) ==
    IF response = None THEN <<>>
    ELSE filterModels(<<>>, response[1], flagOn(env.ADVANCED),
                      flagOn(env.INCLUDE_DEPRECATED))

FetchModelsArgs ==
    [env : [ADVANCED : FlagValues, INCLUDE_DEPRECATED : FlagValues],
     response : {None} \cup {Some(l) : l \in RawModelLists}]

\* a call of fetchModels (chat.ts:42, models.ts:10, index.ts:133) returns
CallFetchModels ==
    /\ fn = "fetchModels"
    /\ ~returned
    /\ result' = fetchModels(args.env, args.response)
    /\ returned' = TRUE
    /\ UNCHANGED <<fn, args, translationVars, relayVars>>

(***************************************************************************)
(* One call of one helper, on arguments the relay can pass.                *)
(***************************************************************************)
InitCall ==
    /\ NoTranslation
    /\ NoRelay
    /\ fn \in {"rot13rot5Encode", "calculateSignatureV2", "getRaycastHeaders",
               "convertMessages", "getProviderInfo", "fetchModels"}
    /\ args \in CASE fn = "rot13rot5Encode" -> Strings
                  [] fn = "calculateSignatureV2" -> SignatureArgs
                  [] fn = "getRaycastHeaders" -> HeadersArgs
                  [] fn = "convertMessages" -> MessageLists
                  [] fn = "getProviderInfo" -> ProviderArgs
                  [] fn = "fetchModels" -> FetchModelsArgs
    /\ result = <<>>
    /\ returned = FALSE

NextCall ==
    \/ CallRot13rot5Encode
    \/ CallCalculateSignatureV2
    \/ CallGetRaycastHeaders
    \/ CallConvertMessages
    \/ CallGetProviderInfo
    \/ CallFetchModels

SpecCall == InitCall /\ [][NextCall]_vars

(***************************************************************************)
(* The relay: the middleware and routes of index.ts, handleChatCompletions *)
(* (chat.ts:22-121) and handleModels (handlers/models.ts).  Requests are   *)
(* handled concurrently, one task per request, interleaved at the awaits;  *)
(* a request's pc is the await its task is suspended at.  fetchModels      *)
(* (chat.ts:422-468) is one vendor call that returns a catalog, empty on   *)
(* any failure.  vendorCalls holds the model fetches, the chat POSTs and   *)
(* the reads of the vendor's error body (chat.ts:93), each with the        *)
(* request that made it and its outcome.                                   *)
(***************************************************************************)
MaxRequests == 2
MaxTicks == 1

\* index.ts:11
READINESS_CHECK_INTERVAL_MS == 30000

\* the clock's value when the first request arrives, and its step
StartTime == 2 * READINESS_CHECK_INTERVAL_MS
TickMs == READINESS_CHECK_INTERVAL_MS

\* the configurations: everything set, with and without API_KEY, or one
\* required variable unset
Configurations ==
    {e \in [RAYCAST_BEARER_TOKEN : {None, Some("token")},
            RAYCAST_DEVICE_ID : {None, Some("device")},
            RAYCAST_SIGNATURE_SECRET : {None, Some("secret")},
            API_KEY : {None, Some("key")}] :
        LET unset == {v \in {"RAYCAST_BEARER_TOKEN", "RAYCAST_DEVICE_ID",
                             "RAYCAST_SIGNATURE_SECRET"} : e[v] = None}
        IN  \/ unset = {}
            \/ Cardinality(unset) = 1 /\ e.API_KEY # None}

\* the Authorization header: absent, the key, another key, the key without
\* "Bearer "
Authorizations ==
    {None, Some(<<"Bearer ", "key">>), Some(<<"Bearer ", "other">>),
     Some(<<"key">>)}

\* what c.req.json() yields (chat.ts:25): None for a body that is no JSON;
\* messages is None when the field is missing
OneMessage == <<[role |-> "user", content |-> "c1"]>>

JsonBodies ==
    {None} \cup
    {Some([messages |-> m, stream |-> FALSE]) : m \in {None, Some(<<>>)}} \cup
    {Some([messages |-> Some(OneMessage), stream |-> st]) : st \in BOOLEAN}

\* method and path of a request: the four routes, a route's path with
\* another method, and a path that is no route
Targets ==
    {<<"POST", "/v1/chat/completions">>, <<"GET", "/v1/models">>,
     <<"GET", "/health">>, <<"GET", "/ready">>,
     <<"GET", "/v1/chat/completions">>, <<"GET", "/other">>}

\* only the chat route reads the body
RequestInputs ==
    {req \in [method : {"GET", "POST"},
              path : {"/v1/chat/completions", "/v1/models", "/health",
                      "/ready", "/other"},
              authorization : Authorizations, json : JsonBodies] :
        /\ <<req.method, req.path>> \in Targets
        /\ req.method = "GET" => req.json = None}

\* the statuses of the vendor's answers to the chat POST (chat.ts:83-92)
VendorStatuses == {200, 401, 500}
StatusText == (200 :> "200") @@ (401 :> "401") @@ (500 :> "500")

\* Response.ok
ok(status) == status >= 200 /\ status <= 299

\* the text raycastResponse.text() yields for an error answer (chat.ts:93)
errorText == "vendor error body"

\* chat.ts:511-531
createErrorResponse(message, status, type) ==
    [status |-> status,
     headers |-> ("Content-Type" :> "application/json") @@
                 ("Access-Control-Allow-Origin" :> "*"),
     body |-> [error |-> [message |-> message, type |-> type, code |-> NULL]]]

\* c.json(object, status) (index.ts:83-89)
json(object, status) ==
    [status |-> status,
     headers |-> ("Content-Type" :> "application/json"),
     body |-> object]

\* index.ts:23-30: the cors middleware, on a request that is no preflight
cors(response) ==
    [response EXCEPT !.headers = ("Access-Control-Allow-Origin" :> "*") @@ @]

\* validateApiKey taking the header without "Bearer " for the key as well
validateApiKey_BearerOptional(authHeader, env) ==
    IF env.API_KEY = None THEN TRUE
    ELSE LET providedKey ==
                 IF authHeader = None THEN None
                 ELSE Some(authHeader[1][Len(authHeader[1])])
         IN  providedKey = env.API_KEY

\* chat.ts:414-420
validateApiKey(authHeader, env) ==
    IF env.API_KEY = None THEN TRUE
    ELSE LET providedKey ==
                 IF authHeader # None /\ Len(authHeader[1]) = 2
                    /\ authHeader[1][1] = "Bearer "
                 THEN Some(authHeader[1][2])
                 ELSE None
         IN  providedKey = env.API_KEY

\* index.ts:32-64: the response of the authentication middleware, None when
\* it calls next()
Middleware(req) ==
    IF req.path \in {"/health", "/ready"} THEN None
    ELSE IF envVars.RAYCAST_BEARER_TOKEN = None
    THEN Some(createErrorResponse(
             <<"Server configuration error: Missing Raycast credentials">>,
             500, "server_error"))
    ELSE IF ~validateApiKey(req.authorization, envVars)
    THEN Some(createErrorResponse(<<"Invalid API key provided.">>,
                                  401, "authentication_error"))
    ELSE None

\* index.ts:66-164: the route of a request
Route(req) ==
    IF req.method = "POST" /\ req.path = "/v1/chat/completions" THEN "chat"
    ELSE IF req.method = "GET" /\ req.path = "/v1/models" THEN "models"
    ELSE IF req.method = "GET" /\ req.path = "/health" THEN "health"
    ELSE IF req.method = "GET" /\ req.path = "/ready" THEN "ready"
    ELSE "notFound"

\* a request as it arrives, with the handler that will answer it: no
\* response, nothing written to backendState, no response handed to a
\* translator; `now` is the local of index.ts:94
NewRequest(req, pcv) ==
    [method |-> req.method, path |-> req.path,
     authorization |-> req.authorization, json |-> req.json,
     handler |-> IF Middleware(req) # None THEN "middleware" ELSE Route(req),
     pc |-> pcv, now |-> 0, response |-> None, writes |-> {},
     translation |-> "none"]

\* the handler returns `response`; the cors middleware adds its header
Finish(request, response) ==
    [request EXCEPT !.pc = "done", !.response = Some(cors(response))]

\* writes to backendState (chat.ts:44-45, 54-55)
MarkFailed == [backendState EXCEPT !.isWorking = FALSE,
                                   !.lastFailureTime = clock]
MarkWorking == [backendState EXCEPT !.isWorking = TRUE,
                                    !.lastSuccessTime = clock]

VendorCall(r, call) == [req |-> r, call |-> call, res |-> "pending"]

\* the pending vendor call of request r settles with `res`
SettleCall(r, res) ==
    [i \in 1..Len(vendorCalls) |->
        IF vendorCalls[i].req = r /\ vendorCalls[i].res = "pending"
        THEN [vendorCalls[i] EXCEPT !.res = res]
        ELSE vendorCalls[i]]

\* the required configuration is there (index.ts:78-82, 97-101)
Configured ==
    /\ envVars.RAYCAST_BEARER_TOKEN # None
    /\ envVars.RAYCAST_DEVICE_ID # None
    /\ envVars.RAYCAST_SIGNATURE_SECRET # None

InitRelay ==
    /\ NoTranslation
    /\ NoCall
    /\ envVars \in Configurations
    /\ backendState = InitialBackendState
    /\ clock = StartTime
    /\ requests = <<>>
    /\ vendorCalls = <<>>

\* index.ts:42-60: the middleware answers the request itself
MiddlewareRejects ==
    /\ Len(requests) < MaxRequests
    /\ \E req \in RequestInputs :
          /\ Middleware(req) # None
          /\ requests' = Append(requests,
                 Finish(NewRequest(req, "done"), Middleware(req)[1]))
    /\ UNCHANGED <<envVars, backendState, clock, vendorCalls>>
    /\ UNCHANGED <<translationVars, callVars>>

\* index.ts:66-68, chat.ts:22-25: await c.req.json()
ChatArrives ==
    /\ Len(requests) < MaxRequests
    /\ \E req \in RequestInputs :
          /\ Middleware(req) = None
          /\ Route(req) = "chat"
          /\ requests' = Append(requests, NewRequest(req, "awaitJson"))
    /\ UNCHANGED <<envVars, backendState, clock, vendorCalls>>
    /\ UNCHANGED <<translationVars, callVars>>

\* index.ts:70-72, models.ts:7-10: await fetchModels(envVars)
ModelsArrives ==
    /\ Len(requests) < MaxRequests
    /\ \E req \in RequestInputs :
          /\ Middleware(req) = None
          /\ Route(req) = "models"
          /\ requests' = Append(requests, NewRequest(req, "awaitFetchModels"))
          /\ vendorCalls' = Append(vendorCalls,
                                   VendorCall(Len(requests) + 1, "GET models"))
    /\ UNCHANGED <<envVars, backendState, clock>>
    /\ UNCHANGED <<translationVars, callVars>>

\* index.ts:74-90
HealthArrives ==
    /\ Len(requests) < MaxRequests
    /\ \E req \in RequestInputs :
          /\ Middleware(req) = None
          /\ Route(req) = "health"
          /\ requests' = Append(requests,
                 Finish(NewRequest(req, "done"),
                        IF ~Configured
                        THEN json([status |-> "error",
                                   message |-> "Missing required configuration"],
                                  503)
                        ELSE json([status |-> "ok"], 200)))
    /\ UNCHANGED <<envVars, backendState, clock, vendorCalls>>
    /\ UNCHANGED <<translationVars, callVars>>

\* ReadyArrivesWithin without the write of lastCheckTime before the probe
ReadyArrivesWithin_NoStamp(limit, inputs) ==
    /\ Len(requests) < limit
    /\ \E req \in inputs :
          /\ Middleware(req) = None
          /\ Route(req) = "ready"
          /\ IF ~Configured
             THEN /\ requests' = Append(requests,
                         Finish(NewRequest(req, "done"),
                                json([status |-> "not ready",
                                      reason |-> "missing_configuration"],
                                     503)))
                  /\ UNCHANGED <<backendState, vendorCalls>>
             ELSE IF backendState.isWorking
             THEN /\ requests' = Append(requests,
                         Finish(NewRequest(req, "done"),
                                json([status |-> "ready"], 200)))
                  /\ UNCHANGED <<backendState, vendorCalls>>
             ELSE IF clock - backendState.lastCheckTime
                         < READINESS_CHECK_INTERVAL_MS
             THEN /\ requests' = Append(requests,
                         Finish(NewRequest(req, "done"),
                                json([status |-> "not ready",
                                      message |->
                                        "Backend not working, rate limited"],
                                     503)))
                  /\ UNCHANGED <<backendState, vendorCalls>>
             ELSE /\ backendState' = backendState
                  /\ requests' = Append(requests,
                         [NewRequest(req, "awaitFetchModels")
                             EXCEPT !.now = clock])
                  /\ vendorCalls' = Append(vendorCalls,
                         VendorCall(Len(requests) + 1, "GET models"))
    /\ UNCHANGED <<envVars, clock>>
    /\ UNCHANGED <<translationVars, callVars>>

\* index.ts:92-133: up to the response or to await fetchModels(envVars),
\* for a request of `inputs` that is among the first `limit`
ReadyArrivesWithin(limit, inputs) ==
    /\ Len(requests) < limit
    /\ \E req \in inputs :
          /\ Middleware(req) = None
          /\ Route(req) = "ready"
          /\ IF ~Configured
             THEN /\ requests' = Append(requests,
                         Finish(NewRequest(req, "done"),
                                json([status |-> "not ready",
                                      reason |-> "missing_configuration"],
                                     503)))
                  /\ UNCHANGED <<backendState, vendorCalls>>
             ELSE IF backendState.isWorking
             THEN /\ requests' = Append(requests,
                         Finish(NewRequest(req, "done"),
                                json([status |-> "ready"], 200)))
                  /\ UNCHANGED <<backendState, vendorCalls>>
             ELSE IF clock - backendState.lastCheckTime
                         < READINESS_CHECK_INTERVAL_MS
             THEN /\ requests' = Append(requests,
                         Finish(NewRequest(req, "done"),
                                json([status |-> "not ready",
                                      message |->
                                        "Backend not working, rate limited"],
                                     503)))
                  /\ UNCHANGED <<backendState, vendorCalls>>
             ELSE /\ backendState' =
                         [backendState EXCEPT !.lastCheckTime = clock]
                  /\ requests' = Append(requests,
                         [NewRequest(req, "awaitFetchModels")
                             EXCEPT !.now = clock,
                                    !.writes = {"lastCheckTime"}])
                  /\ vendorCalls' = Append(vendorCalls,
                         VendorCall(Len(requests) + 1, "GET models"))
    /\ UNCHANGED <<envVars, clock>>
    /\ UNCHANGED <<translationVars, callVars>>

\* index.ts:92-133
ReadyArrives == ReadyArrivesWithin(MaxRequests, RequestInputs)

\* index.ts:162-164
NotFound ==
    /\ Len(requests) < MaxRequests
    /\ \E req \in RequestInputs :
          /\ Middleware(req) = None
          /\ Route(req) = "notFound"
          /\ requests' = Append(requests,
                 Finish(NewRequest(req, "done"),
                        createErrorResponse(<<"Not Found">>, 404,
                                            "invalid_request_error")))
    /\ UNCHANGED <<envVars, backendState, clock, vendorCalls>>
    /\ UNCHANGED <<translationVars, callVars>>

\* request r is suspended at the await `pcv`
At(r, pcv) == r \in 1..Len(requests) /\ requests[r].pc = pcv

\* chat.ts:56-87, from getProviderInfo to the chat POST: the task awaits
\* fetch(RAYCAST_API_URL, ...)
IssuePost(request) == [request EXCEPT !.pc = "awaitPost"]

\* JsonResolves with only a missing `messages` refused (`!messages` for
\* `!messages?.length`)
JsonResolves_EmptyAccepted ==
    \E r \in 1..Len(requests) :
        /\ At(r, "awaitJson")
        /\ requests[r].json # None
        /\ LET messages == requests[r].json[1].messages
           IN  IF messages = None
               THEN /\ requests' = [requests EXCEPT ![r] = Finish(@,
                           createErrorResponse(
                               <<"Missing or invalid 'messages' field">>,
                               400, "invalid_request_error"))]
                    /\ UNCHANGED vendorCalls
               ELSE /\ requests' = [requests EXCEPT
                                       ![r].pc = "awaitFetchModels"]
                    /\ vendorCalls' = Append(vendorCalls,
                                             VendorCall(r, "GET models"))
        /\ UNCHANGED <<envVars, backendState, clock>>
        /\ UNCHANGED <<translationVars, callVars>>

\* chat.ts:25-42: the body is JSON; the messages are checked and
\* fetchModels is called
JsonResolves ==
    \E r \in 1..Len(requests) :
        /\ At(r, "awaitJson")
        /\ requests[r].json # None
        /\ LET messages == requests[r].json[1].messages
           IN  IF messages = None \/ messages = Some(<<>>)
               THEN /\ requests' = [requests EXCEPT ![r] = Finish(@,
                           createErrorResponse(
                               <<"Missing or invalid 'messages' field">>,
                               400, "invalid_request_error"))]
                    /\ UNCHANGED vendorCalls
               ELSE /\ requests' = [requests EXCEPT
                                       ![r].pc = "awaitFetchModels"]
                    /\ vendorCalls' = Append(vendorCalls,
                                             VendorCall(r, "GET models"))
        /\ UNCHANGED <<envVars, backendState, clock>>
        /\ UNCHANGED <<translationVars, callVars>>

\* chat.ts:111-120: the catch block's response
relayError(detail) ==
    createErrorResponse(<<"Chat completion failed: ", detail>>, 500,
                        "relay_error")

\* chat.ts:25, 111-120: the body is no JSON, c.req.json() throws
JsonRejects ==
    \E r \in 1..Len(requests) :
        /\ At(r, "awaitJson")
        /\ requests[r].json = None
        /\ backendState' = MarkFailed
        /\ requests' = [requests EXCEPT ![r] =
               Finish([@ EXCEPT !.writes = @ \cup {"isWorking",
                                                   "lastFailureTime"}],
                      relayError("Unexpected token"))]
        /\ UNCHANGED <<envVars, clock, vendorCalls>>
        /\ UNCHANGED <<translationVars, callVars>>

\* the response to an empty catalog (chat.ts:46-50, models.ts:15-19)
noModels ==
    createErrorResponse(<<"No models available. Check server configuration.">>,
                        500, "server_error")

\* ChatFetchModelsReturns without the test of models.size: the POST is
\* issued with the default provider when the catalog is empty
ChatFetchModelsReturns_PostAnyway ==
    \E r \in 1..Len(requests), size \in {0, 1} :
        /\ At(r, "awaitFetchModels")
        /\ requests[r].handler = "chat"
        /\ backendState' = MarkWorking
        /\ requests' = [requests EXCEPT ![r] =
               IssuePost([@ EXCEPT !.writes = @ \cup
                             {"isWorking", "lastSuccessTime"}])]
        /\ vendorCalls' = Append(
               SettleCall(r, IF size = 0 THEN "empty" ELSE "models"),
               VendorCall(r, "POST chat"))
        /\ UNCHANGED <<envVars, clock>>
        /\ UNCHANGED <<translationVars, callVars>>

\* chat.ts:42-87: fetchModels returns, with models or with an empty Map
ChatFetchModelsReturns ==
    \E r \in 1..Len(requests), size \in {0, 1} :
        /\ At(r, "awaitFetchModels")
        /\ requests[r].handler = "chat"
        /\ IF size = 0
           THEN /\ backendState' = MarkFailed
                /\ requests' = [requests EXCEPT ![r] =
                       Finish([@ EXCEPT !.writes = @ \cup {"isWorking",
                                                           "lastFailureTime"}],
                              noModels)]
                /\ vendorCalls' = SettleCall(r, "empty")
           ELSE /\ backendState' = MarkWorking
                /\ requests' = [requests EXCEPT ![r] =
                       IssuePost([@ EXCEPT !.writes = @ \cup
                                     {"isWorking", "lastSuccessTime"}])]
                /\ vendorCalls' = Append(SettleCall(r, "models"),
                                         VendorCall(r, "POST chat"))
        /\ UNCHANGED <<envVars, clock>>
        /\ UNCHANGED <<translationVars, callVars>>

\* models.ts:10-43
ModelsFetchModelsReturns ==
    \E r \in 1..Len(requests), size \in {0, 1} :
        /\ At(r, "awaitFetchModels")
        /\ requests[r].handler = "models"
        /\ IF size = 0
           THEN /\ backendState' = MarkFailed
                /\ requests' = [requests EXCEPT ![r] =
                       Finish([@ EXCEPT !.writes = @ \cup {"isWorking",
                                                           "lastFailureTime"}],
                              noModels)]
                /\ vendorCalls' = SettleCall(r, "empty")
           ELSE /\ backendState' = MarkWorking
                /\ requests' = [requests EXCEPT ![r] =
                       Finish([@ EXCEPT !.writes = @ \cup
                                  {"isWorking", "lastSuccessTime"}],
                              [status |-> 200,
                               headers |->
                                 ("Content-Type" :> "application/json") @@
                                 ("Access-Control-Allow-Origin" :> "*"),
                               body |-> [object |-> "list"]])]
                /\ vendorCalls' = SettleCall(r, "models")
        /\ UNCHANGED <<envVars, clock>>
        /\ UNCHANGED <<translationVars, callVars>>

\* index.ts:133-148
ReadyFetchModelsReturns ==
    \E r \in 1..Len(requests), size \in {0, 1} :
        /\ At(r, "awaitFetchModels")
        /\ requests[r].handler = "ready"
        /\ IF size = 0
           THEN /\ backendState' =
                       [backendState EXCEPT
                           !.lastFailureTime = requests[r].now]
                /\ requests' = [requests EXCEPT ![r] =
                       Finish([@ EXCEPT !.writes = @ \cup {"lastFailureTime"}],
                              json([status |-> "not ready",
                                    message |-> "No models available"], 503))]
                /\ vendorCalls' = SettleCall(r, "empty")
           ELSE /\ backendState' =
                       [backendState EXCEPT
                           !.isWorking = TRUE,
                           !.lastSuccessTime = requests[r].now]
                /\ requests' = [requests EXCEPT ![r] =
                       Finish([@ EXCEPT !.writes = @ \cup
                                  {"isWorking", "lastSuccessTime"}],
                              json([status |-> "ready"], 200))]
                /\ vendorCalls' = SettleCall(r, "models")
        /\ UNCHANGED <<envVars, clock>>
        /\ UNCHANGED <<translationVars, callVars>>

\* chat.ts:83-110: the vendor answers the chat POST.  A 2xx answer is
\* handed to a translator (chat.ts:108-110), for another the error body
\* is read (chat.ts:93)
PostResolves ==
    \E r \in 1..Len(requests), status \in VendorStatuses :
        /\ At(r, "awaitPost")
        /\ IF ok(status)
           THEN /\ backendState' = MarkWorking
                /\ requests' = [requests EXCEPT ![r] =
                       [@ EXCEPT !.pc = "done",
                                 !.writes = @ \cup {"isWorking",
                                                    "lastSuccessTime"},
                                 !.translation =
                                     IF requests[r].json[1].stream
                                     THEN "streaming" ELSE "nonStreaming"]]
                /\ vendorCalls' = SettleCall(r, StatusText[status])
           ELSE /\ requests' = [requests EXCEPT ![r].pc = "awaitErrorText"]
                /\ vendorCalls' = Append(SettleCall(r, StatusText[status]),
                                         VendorCall(r, "read error body"))
                /\ UNCHANGED backendState
        /\ UNCHANGED <<envVars, clock>>
        /\ UNCHANGED <<translationVars, callVars>>

\* chat.ts:83, 111-120: fetch throws (the vendor cannot be reached)
PostRejects ==
    \E r \in 1..Len(requests) :
        /\ At(r, "awaitPost")
        /\ backendState' = MarkFailed
        /\ requests' = [requests EXCEPT ![r] =
               Finish([@ EXCEPT !.writes = @ \cup {"isWorking",
                                                   "lastFailureTime"}],
                      relayError("fetch failed"))]
        /\ vendorCalls' = SettleCall(r, "network error")
        /\ UNCHANGED <<envVars, clock>>
        /\ UNCHANGED <<translationVars, callVars>>

\* the status of the answer to request r's chat POST
PostStatus(r) ==
    LET i == CHOOSE i \in 1..Len(vendorCalls) :
                 vendorCalls[i].req = r /\ vendorCalls[i].call = "POST chat"
    IN  vendorCalls[i].res

\* chat.ts:93-101: the error body is read
ErrorTextResolves ==
    \E r \in 1..Len(requests) :
        /\ At(r, "awaitErrorText")
        /\ backendState' = MarkFailed
        /\ requests' = [requests EXCEPT ![r] =
               Finish([@ EXCEPT !.writes = @ \cup {"isWorking",
                                                   "lastFailureTime"}],
                      createErrorResponse(
                          <<"Raycast API error (", PostStatus(r), ")">>,
                          502, "bad_gateway"))]
        /\ vendorCalls' = SettleCall(r, "ok")
        /\ UNCHANGED <<envVars, clock>>
        /\ UNCHANGED <<translationVars, callVars>>

\* chat.ts:93, 111-120: reading the error body throws
ErrorTextRejects ==
    \E r \in 1..Len(requests) :
        /\ At(r, "awaitErrorText")
        /\ backendState' = MarkFailed
        /\ requests' = [requests EXCEPT ![r] =
               Finish([@ EXCEPT !.writes = @ \cup {"isWorking",
                                                   "lastFailureTime"}],
                      relayError("terminated"))]
        /\ vendorCalls' = SettleCall(r, "failed")
        /\ UNCHANGED <<envVars, clock>>
        /\ UNCHANGED <<translationVars, callVars>>

\* time passes
Tick ==
    /\ clock < StartTime + MaxTicks * TickMs
    /\ clock' = clock + TickMs
    /\ UNCHANGED <<envVars, backendState, requests, vendorCalls>>
    /\ UNCHANGED <<translationVars, callVars>>

NextRelay ==
    \/ MiddlewareRejects
    \/ ChatArrives
    \/ ModelsArrives
    \/ HealthArrives
    \/ ReadyArrives
    \/ NotFound
    \/ JsonResolves
    \/ JsonRejects
    \/ ChatFetchModelsReturns
    \/ ModelsFetchModelsReturns
    \/ ReadyFetchModelsReturns
    \/ PostResolves
    \/ PostRejects
    \/ ErrorTextResolves
    \/ ErrorTextRejects
    \/ Tick

SpecRelay == InitRelay /\ [][NextRelay]_vars

(***************************************************************************)
(* The /ready endpoint under load: a /v1/models request, which can turn    *)
(* the health flag off, with up to MaxProbes requests in all, the others   *)
(* being /ready requests, while time passes in steps of half the           *)
(* readiness interval.                                                     *)
(***************************************************************************)
MaxProbes == 4
MaxReadyTicks == 3

\* /ready is a public path: its Authorization header is never looked at
ReadyInputs == {req \in RequestInputs : req.authorization = None}

InitReady ==
    /\ InitRelay
    /\ Configured

ProbeArrives == ReadyArrivesWithin(MaxProbes, ReadyInputs)

\* time passes: half a readiness interval
TickReady ==
    /\ clock < StartTime + MaxReadyTicks * (READINESS_CHECK_INTERVAL_MS \div 2)
    /\ clock' = clock + (READINESS_CHECK_INTERVAL_MS \div 2)
    /\ UNCHANGED <<envVars, backendState, requests, vendorCalls>>
    /\ UNCHANGED <<translationVars, callVars>>

NextReady ==
    \/ ModelsArrives
    \/ ModelsFetchModelsReturns
    \/ ProbeArrives
    \/ ReadyFetchModelsReturns
    \/ TickReady

SpecReady == InitReady /\ [][NextReady]_vars

Returned(f) == fn = f /\ returned

SignatureOf(a) ==
    calculateSignatureV2(a.timestamp, a.deviceId, a.bodyStr, a.signatureSecret)

(***************************************************************************)
(* C12 as claimed.  Two argument tuples of calculateSignatureV2 that       *)
(* differ in the timestamp, the device id, the body or the secret (an      *)
(* absent or empty secret differing from the default constant) never give  *)
(* the same signing message and key.                                       *)
(***************************************************************************)
C12_SignatureChangesWithInputs ==
    Returned("calculateSignatureV2") =>
        \A other \in SignatureArgs :
            other # args => SignatureOf(other) # result

\* the secret the message is signed with (chat.ts:326-329)
EffectiveSecret(signatureSecret) ==
    IF signatureSecret = None \/ signatureSecret = Some(<<>>)
    THEN DEFAULT_SIGNATURE_SECRET
    ELSE signatureSecret[1]

(***************************************************************************)
(* C12 as amended.  The signature is a function of the arguments, and two  *)
(* argument tuples that differ in the timestamp, the device id (with or    *)
(* without '.'), the body, or the secret after an absent or empty secret   *)
(* is replaced by the default constant, never give the same signing        *)
(* message and key; an absent, an empty and the default secret give the    *)
(* same key.                                                               *)
(***************************************************************************)
C12_SignatureChangesWithEffectiveInputs ==
    Returned("calculateSignatureV2") =>
        /\ result = SignatureOf(args)
        /\ \A other \in SignatureArgs :
              SignatureOf(other) = result <=>
                  /\ other.timestamp = args.timestamp
                  /\ other.deviceId = args.deviceId
                  /\ other.bodyStr = args.bodyStr
                  /\ EffectiveSecret(other.signatureSecret) =
                         EffectiveSecret(args.signatureSecret)

\* a signature with an absent secret over a device id that contains '.'
C12_Witness ==
    /\ Returned("calculateSignatureV2")
    /\ args.signatureSecret = None
    /\ \E i \in 1..Len(args.deviceId) : args.deviceId[i] = 46
    /\ result.key = DEFAULT_SIGNATURE_SECRET
    /\ \E other \in SignatureArgs :
          other # args /\ SignatureOf(other) = result

CharClass(charCode) ==
    IF charCode >= 65 /\ charCode <= 90 THEN "upper"
    ELSE IF charCode >= 97 /\ charCode <= 122 THEN "lower"
    ELSE IF charCode >= 48 /\ charCode <= 57 THEN "digit"
    ELSE "other"

(***************************************************************************)
(* C13.  rot13rot5Encode applied to its own result gives back the string;  *)
(* one application keeps the length, maps upper-case letters to upper-case *)
(* letters, lower-case letters to lower-case letters, digits to digits and *)
(* leaves every other character as it is.                                  *)
(***************************************************************************)
C13_RotationInvolution ==
    Returned("rot13rot5Encode") =>
        /\ rot13rot5Encode(result) = args
        /\ Len(result) = Len(args)
        /\ \A i \in 1..Len(args) :
              /\ CharClass(result[i]) = CharClass(args[i])
              /\ CharClass(args[i]) = "other" => result[i] = args[i]

\* "Z5" becomes "M0"
C13_Witness ==
    /\ Returned("rot13rot5Encode")
    /\ args = <<90, 53>>
    /\ result = <<77, 48>>

SignatureHeader == "X-Raycast-Signature-v2"

(***************************************************************************)
(* C14.  getRaycastHeaders returns the signature header exactly when it is *)
(* given a body; the signature is the one of that body with the timestamp  *)
(* and the device id of the X-Raycast-Timestamp and X-Raycast-DeviceId     *)
(* headers; the other headers are the fixed set, with or without a body.   *)
(***************************************************************************)
C14_SignatureHeaderIffBody ==
    Returned("getRaycastHeaders") =>
        /\ SignatureHeader \in DOMAIN result <=> args.bodyString # None
        /\ args.bodyString # None =>
              result[SignatureHeader] =
                  calculateSignatureV2(result["X-Raycast-Timestamp"],
                                       result["X-Raycast-DeviceId"],
                                       args.bodyString[1],
                                       args.env.RAYCAST_SIGNATURE_SECRET)
        /\ result["X-Raycast-Timestamp"] = args.now
        /\ result["X-Raycast-DeviceId"] = args.env.RAYCAST_DEVICE_ID
        /\ [h \in DOMAIN result \ {SignatureHeader} |-> result[h]] =
               FixedHeaders(args.env, args.now, args.env.RAYCAST_DEVICE_ID)
        /\ DOMAIN result \ {SignatureHeader} =
               {"Host", "Accept", "User-Agent", "Authorization",
                "Accept-Language", "Content-Type", "Connection",
                "X-Raycast-Timestamp", "X-Raycast-DeviceId"}

\* a call with a body: the signature header is there
C14_Witness ==
    /\ Returned("getRaycastHeaders")
    /\ args.bodyString # None
    /\ SignatureHeader \in DOMAIN result
    /\ result[SignatureHeader].key = <<115>>

(***************************************************************************)
(* C15.  convertMessages returns as systemInstruction the content of the   *)
(* first message when its role is "system", and "markdown" otherwise, also *)
(* when a later message has role "system".                                 *)
(***************************************************************************)
C15_SystemInstruction ==
    Returned("convertMessages") =>
        result.systemInstruction =
            IF args # <<>> /\ args[1].role = "system"
            THEN args[1].content
            ELSE "markdown"

\* a system message at the second position only
C15_Witness ==
    /\ Returned("convertMessages")
    /\ Len(args) >= 2
    /\ args[1].role = "user"
    /\ args[2].role = "system"
    /\ result.systemInstruction = "markdown"

\* the user and assistant messages of a list, converted, in order
Conversation(openaiMessages) ==
    LET turns == SelectSeq(openaiMessages,
                           LAMBDA m : m.role \in {"user", "assistant"})
    IN  [i \in 1..Len(turns) |->
            [author |-> turns[i].role, content |-> [text |-> turns[i].content]]]

(***************************************************************************)
(* C16.  The vendor messages convertMessages returns are the input's user  *)
(* and assistant messages in their order, each as {author, content:        *)
(* {text}}; system messages and messages of other roles are absent.        *)
(***************************************************************************)
C16_VendorMessages ==
    Returned("convertMessages") =>
        /\ result.raycastMessages = Conversation(args)
        /\ \A i \in 1..Len(result.raycastMessages) :
              result.raycastMessages[i].author \in {"user", "assistant"}
        /\ Len(result.raycastMessages) =
               Cardinality({i \in 1..Len(args) :
                               args[i].role \in {"user", "assistant"}})

\* a later system message and a tool message are dropped
C16_Witness ==
    /\ Returned("convertMessages")
    /\ Len(args) = 3
    /\ args[1].role = "user"
    /\ args[2].role = "system"
    /\ args[3].role = "tool"
    /\ Len(result.raycastMessages) = 1

(***************************************************************************)
(* C17.  getProviderInfo returns the catalog's entry for a model id of the *)
(* catalog and the pair ("openai", "gpt-4o-mini") for any other, and       *)
(* leaves the catalog as it was.                                           *)
(***************************************************************************)
C17_ProviderInfoTotal ==
    Returned("getProviderInfo") =>
        /\ result.info =
               IF args.modelId \in DOMAIN args.models
               THEN args.models[args.modelId]
               ELSE [provider |-> "openai", model |-> "gpt-4o-mini"]
        /\ result.models = args.models

\* a model id that is not in a catalog of other models
C17_Witness ==
    /\ Returned("getProviderInfo")
    /\ args.modelId \notin DOMAIN args.models
    /\ args.models # <<>>
    /\ result.info.provider = "openai"

(***************************************************************************)
(* Vocabulary of the relay's properties.                                   *)
(***************************************************************************)
Handled == 1..Len(requests)

\* the vendor calls request r made, in issue order
CallsOf(r) == SelectSeq(vendorCalls, LAMBDA c : c.req = r)

CallsOfKind(r, kind) == SelectSeq(CallsOf(r), LAMBDA c : c.call = kind)

\* request r went through the middleware to the chat handler
InChatHandler(r) == requests[r].handler = "chat"

\* request r's body is JSON without messages, or with an empty list of them
NoMessages(r) ==
    /\ requests[r].json # None
    /\ requests[r].json[1].messages \in {None, Some(<<>>)}

Answered(r) == requests[r].response # None

ResponseOf(r) == requests[r].response[1]

\* a response body of the ErrorResponse shape (types.ts:107-113) with a
\* null code
IsErrorResponse(body) ==
    /\ DOMAIN body = {"error"}
    /\ DOMAIN body.error = {"message", "type", "code"}
    /\ body.error.code = NULL

IsError(response, status, type) ==
    /\ response.status = status
    /\ IsErrorResponse(response.body)
    /\ response.body.error.type = type

(***************************************************************************)
(* C18.  A chat request whose messages are missing or empty is answered    *)
(* 400 invalid_request_error; from its arrival to its answer it makes no   *)
(* vendor call and writes nothing to backendState, and the step that       *)
(* answers it leaves backendState and the vendor calls as they were.       *)
(***************************************************************************)
C18_EmptyMessagesRejected ==
    /\ [](\A r \in Handled :
            (InChatHandler(r) /\ NoMessages(r)) =>
                /\ requests[r].pc \in {"awaitJson", "done"}
                /\ CallsOf(r) = <<>>
                /\ requests[r].writes = {}
                /\ requests[r].translation = "none"
                /\ requests[r].pc = "done" =>
                       IsError(ResponseOf(r), 400, "invalid_request_error"))
    /\ [][\A r \in Handled :
            (InChatHandler(r) /\ NoMessages(r) /\ requests[r].pc = "awaitJson"
                 /\ requests'[r].pc # "awaitJson") =>
                /\ backendState' = backendState
                /\ vendorCalls' = vendorCalls]_vars

\* a request without messages was answered while the other request had
\* made vendor calls
C18_Witness ==
    \E r \in Handled :
        /\ InChatHandler(r) /\ NoMessages(r)
        /\ requests[r].json[1].messages = Some(<<>>)
        /\ Answered(r)
        /\ ResponseOf(r).status = 400
        /\ vendorCalls # <<>>

\* the vendor answered request r's chat POST with a status that is not 2xx
PostRefused(r) ==
    /\ CallsOfKind(r, "POST chat") # <<>>
    /\ CallsOfKind(r, "POST chat")[1].res \in {"401", "500"}

\* the outcome of the read of the vendor's error body, "pending" before
ErrorBodyRead(r) == CallsOfKind(r, "read error body")[1].res

\* `part` is one of the parts of the response's message
InMessage(response, part) ==
    \E i \in 1..Len(response.body.error.message) :
        response.body.error.message[i] = part

\* the response of C19: 502 bad_gateway, the status in the message, the
\* vendor's error body not
IsBadGateway(r) ==
    /\ IsError(ResponseOf(r), 502, "bad_gateway")
    /\ InMessage(ResponseOf(r), CallsOfKind(r, "POST chat")[1].res)
    /\ ~InMessage(ResponseOf(r), errorText)

(***************************************************************************)
(* C19 as claimed.  A chat request whose POST the vendor answered with a   *)
(* status that is not 2xx is answered 502 bad_gateway, the message with    *)
(* the status and without the vendor's error body; it sent one POST, no    *)
(* translation was started, and it wrote not-working to the health flag.   *)
(***************************************************************************)
C19_Non2xxIsBadGateway ==
    \A r \in Handled :
        (PostRefused(r) /\ requests[r].pc = "done") =>
            /\ IsBadGateway(r)
            /\ Len(CallsOfKind(r, "POST chat")) = 1
            /\ requests[r].translation = "none"
            /\ {"isWorking", "lastFailureTime"} \subseteq requests[r].writes

(***************************************************************************)
(* C19 where the error body is read.  A chat request whose POST the vendor  *)
(* answered with a status that is not 2xx is answered 502 bad_gateway when *)
(* the read of the error body succeeds, and 500 relay_error when the read  *)
(* fails.  In both cases the message is without the vendor's error body,   *)
(* the request sent one POST, no translation is started, and the step that *)
(* answers it sets the health flag to not-working and makes no vendor call.*)
(***************************************************************************)
C19_Non2xxIsBadGatewayIfBodyRead ==
    /\ [](\A r \in Handled :
            PostRefused(r) =>
                /\ requests[r].pc \in {"awaitErrorText", "done"}
                /\ Len(CallsOfKind(r, "POST chat")) = 1
                /\ requests[r].translation = "none"
                /\ requests[r].pc = "done" =>
                       /\ ErrorBodyRead(r) = "ok" => IsBadGateway(r)
                       /\ ErrorBodyRead(r) = "failed" =>
                              /\ IsError(ResponseOf(r), 500, "relay_error")
                              /\ ~InMessage(ResponseOf(r), errorText)
                       /\ ErrorBodyRead(r) \in {"ok", "failed"})
    /\ [][\A r \in Handled :
            (requests[r].pc = "awaitErrorText" /\ requests'[r].pc = "done") =>
                /\ ~backendState'.isWorking
                /\ backendState'.lastFailureTime = clock
                /\ Len(vendorCalls') = Len(vendorCalls)]_vars

(***************************************************************************)
(* C20.  Every response of the relay with a status of 400 or    *)
(* above has a body {error: {message, type, code: null}} and the           *)
(* Access-Control-Allow-Origin header.                                     *)
(***************************************************************************)
C20_ErrorsHaveErrorShape ==
    \A r \in Handled :
        (Answered(r) /\ ResponseOf(r).status >= 400) =>
            /\ IsErrorResponse(ResponseOf(r).body)
            /\ "Access-Control-Allow-Origin" \in DOMAIN ResponseOf(r).headers

\* the same for the responses that createErrorResponse builds: those of the
\* middleware, of the chat and models handlers and of unmatched routes
C20_ErrorShapeOutsideHealthAndReady ==
    \A r \in Handled :
        (Answered(r) /\ ResponseOf(r).status >= 400
             /\ requests[r].handler \notin {"health", "ready"}) =>
            /\ IsErrorResponse(ResponseOf(r).body)
            /\ "Access-Control-Allow-Origin" \in DOMAIN ResponseOf(r).headers

\* the model data of id `id` in the vendor's answer of a fetchModels call
Listed(id) ==
    {i \in 1..Len(args.response[1]) : args.response[1][i].id = id}

(***************************************************************************)
(* C21.  With INCLUDE_DEPRECATED unset the catalog fetchModels returns has *)
(* no model that the vendor lists as deprecated only; with ADVANCED unset  *)
(* the premium models that are not deprecated are in the catalog.          *)
(***************************************************************************)
C21_DeprecatedExcludedByDefault ==
    (Returned("fetchModels") /\ args.response # None) =>
        /\ args.env.INCLUDE_DEPRECATED = None =>
              \A id \in DOMAIN result :
                  \E i \in Listed(id) :
                      args.response[1][i].availability # "deprecated"
        /\ args.env.ADVANCED = None =>
              \A i \in 1..Len(args.response[1]) :
                  (/\ args.response[1][i].requires_better_ai
                   /\ args.response[1][i].availability # "deprecated") =>
                      args.response[1][i].id \in DOMAIN result

\* what the code does: a flag that is unset counts as on, so with both flags
\* unset every listed model is in the catalog
C21_UnsetFlagsIncludeAll ==
    (Returned("fetchModels") /\ args.response # None
         /\ args.env.INCLUDE_DEPRECATED = None /\ args.env.ADVANCED = None) =>
        DOMAIN result = {args.response[1][i].id :
                            i \in 1..Len(args.response[1])}

\* request r is for a path behind the key check
NonPublic(r) == requests[r].path \notin {"/health", "/ready"}

\* the Authorization header of request r is absent, is not "Bearer <key>",
\* or carries another key than the configured one
BadKey(r) ==
    \/ requests[r].authorization = None
    \/ Len(requests[r].authorization[1]) # 2
    \/ requests[r].authorization[1][1] # "Bearer "
    \/ Some(requests[r].authorization[1][2]) # envVars.API_KEY

\* request r was refused before its route handler: no vendor call, nothing
\* written to backendState, no translation
NeverRun(r) ==
    /\ requests[r].handler = "middleware"
    /\ CallsOf(r) = <<>>
    /\ requests[r].writes = {}
    /\ requests[r].translation = "none"

\* no request is answered 401 when no API_KEY is configured
PublicAccess ==
    envVars.API_KEY = None =>
        \A r \in Handled :
            Answered(r) => ~IsError(ResponseOf(r), 401, "authentication_error")

(***************************************************************************)
(* C22.  Without a configured API_KEY no request is refused for its key;   *)
(* with one, a request to a non-public path with a missing, malformed or   *)
(* different key is answered 401 authentication_error, and its handler is  *)
(* never run: no vendor call, nothing written to backendState.             *)
(***************************************************************************)
C22_BadKeyIs401 ==
    /\ PublicAccess
    /\ envVars.API_KEY # None =>
          \A r \in Handled :
              (NonPublic(r) /\ BadKey(r)) =>
                  /\ Answered(r)
                  /\ IsError(ResponseOf(r), 401, "authentication_error")
                  /\ NeverRun(r)

(***************************************************************************)
(* C22, amended.  As above, but the middleware tests the vendor token      *)
(* before the key (index.ts:42-49): with RAYCAST_BEARER_TOKEN unset the    *)
(* answer is 500 server_error, with it set 401 authentication_error.  In   *)
(* both cases the handler is never run, and the step that refuses the      *)
(* request leaves backendState and the vendor calls as they were.          *)
(***************************************************************************)
C22_BadKeyRefused ==
    /\ [](/\ PublicAccess
          /\ envVars.API_KEY # None =>
                \A r \in Handled :
                    (NonPublic(r) /\ BadKey(r)) =>
                        /\ Answered(r)
                        /\ IF envVars.RAYCAST_BEARER_TOKEN = None
                           THEN IsError(ResponseOf(r), 500, "server_error")
                           ELSE IsError(ResponseOf(r), 401,
                                        "authentication_error")
                        /\ NeverRun(r))
    /\ [][(/\ envVars.API_KEY # None
           /\ Len(requests') = Len(requests) + 1
           /\ requests'[Len(requests')].handler = "middleware") =>
              /\ backendState' = backendState
              /\ vendorCalls' = vendorCalls]_vars

\* the key without "Bearer " was refused with 401 while the other request
\* had made vendor calls, and a request with the key was let through
C22_Witness ==
    /\ envVars.API_KEY # None
    /\ \E r \in Handled :
          /\ NonPublic(r)
          /\ requests[r].authorization = Some(<<"key">>)
          /\ Answered(r)
          /\ ResponseOf(r).status = 401
    /\ \E r \in Handled :
          /\ NonPublic(r) /\ ~BadKey(r)
          /\ requests[r].handler # "middleware"
          /\ CallsOf(r) # <<>>

(***************************************************************************)
(* Vocabulary of the translator's teardown.                                *)
(***************************************************************************)
\* the positions of the log at which an operation of kind `op` was issued
Issued(op) == {i \in 1..Len(log) : log[i].op = op}

\* a reader was acquired: response.body.getReader(), chat.ts:140
ReaderAcquired == stream /\ hasBody

\* the read loop and the terminator's write are over
Teardown == pc \in {"awaitAbort", "awaitClose", "awaitCancel", "end"}

(***************************************************************************)
(* C23.  When a reader was acquired, reader.cancel() is issued exactly     *)
(* once, after the read loop, on every path (the stop reasons below); it   *)
(* is the last operation of the run, so no read follows it, and no read is *)
(* pending when it is issued.  Without a reader nothing is cancelled.      *)
(***************************************************************************)
C23_ReaderCancelledOnce ==
    /\ ~ReaderAcquired => Issued("cancel") = {}
    /\ ReaderAcquired =>
          /\ Issued("cancel") =
                 IF pc \in {"awaitCancel", "end"} THEN {Len(log)} ELSE {}
          /\ pc \in {"awaitCancel", "end"} =>
                 /\ stopReason \in {"vendorDone", "finish", "eof", "writeFail",
                                    "readError"}
                 /\ \A i \in Issued("read") : log[i].res # "pending"

\* a run that a failing chunk write ended has cancelled the reader, with
\* vendor bytes left unread
C23_Witness ==
    /\ StreamEnded
    /\ stopReason = "writeFail"
    /\ upstream # <<>>
    /\ Issued("cancel") = {Len(log)}
    /\ log[Len(log)].res = "ok"

(***************************************************************************)
(* C24.  At most one operation is pending at any time, and it is the one   *)
(* issued last: no read or write is issued while an earlier operation is   *)
(* pending.                                                                *)
(***************************************************************************)
C24_OnePendingOperation ==
    \A i \in 1..Len(log) : log[i].res = "pending" => i = Len(log)

(***************************************************************************)
(* C24 as stated: in addition, reads and writes strictly alternate, so no  *)
(* write follows a write.                                                  *)
(***************************************************************************)
C24_StrictAlternation ==
    /\ C24_OnePendingOperation
    /\ \A i \in 1..(Len(log) - 1) :
          ~(log[i].op = "write" /\ log[i + 1].op = "write")

\* reads and writes were issued in turn and the second write is pending
C24_Witness ==
    /\ Cardinality(Issued("read")) >= 2
    /\ Cardinality(Issued("write")) >= 2
    /\ log[Len(log)].op = "write"
    /\ log[Len(log)].res = "pending"

(***************************************************************************)
(* C27.  In streaming mode at most one of writer.close() and               *)
(* writer.abort() is issued, no write, close or abort is issued after it,  *)
(* and a run that has ended has issued exactly one of them.                *)
(***************************************************************************)
C27_WriterFinishedOnce ==
    stream =>
        /\ Cardinality(Issued("close") \cup Issued("abort")) <= 1
        /\ \A i \in Issued("close") \cup Issued("abort") :
              \A j \in (i + 1)..Len(log) : ~IsWriterOp(log[j])
        /\ pc = "end" =>
              Cardinality(Issued("close") \cup Issued("abort")) = 1
        /\ Issued("abort") # {} <=> aborted \/ pc = "awaitAbort"

\* a run whose terminator could not be written has ended with abort alone
C27_Witness ==
    /\ StreamEnded
    /\ \E i \in Issued("write") : IsDoneWrite(log[i]) /\ log[i].res = "fail"
    /\ Issued("abort") # {}
    /\ Issued("close") = {}

(***************************************************************************)
(* The translation with every pending operation settling in the end: each  *)
(* step of Next is the settling of the one pending read, write, close,     *)
(* abort or cancel, so weak fairness of Next says that no operation stays  *)
(* pending for ever.  The vendor body is finite, so its reads reach the    *)
(* end of the stream, a terminator or an error.                            *)
(***************************************************************************)
MaxLinesLive == 2

\* the initial states of Spec with a vendor body of at most MaxLinesLive lines
InitLive == Init /\ Len(lines) <= MaxLinesLive

SpecLive == InitLive /\ [][Next]_vars /\ WF_vars(Next)

\* the task is over, the writer was closed or aborted and the close or
\* abort has settled, and the reader, if there was one, was cancelled
TornDown ==
    /\ pc = "end"
    /\ \E i \in Issued("close") \cup Issued("abort") : log[i].res = "ok"
    /\ ReaderAcquired => \E i \in Issued("cancel") : log[i].res = "ok"

(***************************************************************************)
(* C28.  A streaming translation whose pending operations all settle       *)
(* ends: in the end the writer is closed or aborted and the reader, when   *)
(* one was acquired, is cancelled.                                         *)
(***************************************************************************)
C28_TranslationTerminates == stream ~> TornDown

\* a run that read to the end of an unterminated body is torn down
C28_Witness ==
    /\ stream /\ TornDown
    /\ stopReason = "eof"
    /\ Len(log) >= 4

(***************************************************************************)
(* Vocabulary of the readiness probe.                                      *)
(***************************************************************************)
\* the /ready requests that probed the vendor; requests[r].now is the time
\* at which the probe of r started
Probes == {r \in Handled : requests[r].handler = "ready" /\ CallsOf(r) # <<>>}

\* a probe started less than the readiness interval ago
InsideInterval ==
    \E r \in Probes : clock - requests[r].now < READINESS_CHECK_INTERVAL_MS

\* the step is the arrival of a /ready request
ReadyRequestArrives ==
    /\ Len(requests') = Len(requests) + 1
    /\ requests'[Len(requests')].handler = "ready"

(***************************************************************************)
(* C25.  A /ready request makes at most one vendor call, a model fetch;    *)
(* two probes of /ready requests start at least                            *)
(* READINESS_CHECK_INTERVAL_MS apart, whatever the interleaving; and a     *)
(* /ready request that arrives inside the interval while the flag is       *)
(* not-working is answered 503 at once, the step leaving the vendor calls  *)
(* and backendState as they were.                                          *)
(***************************************************************************)
C25_ProbeOncePerInterval ==
    /\ [](/\ \A r \in Probes :
                /\ Len(CallsOf(r)) = 1
                /\ CallsOf(r)[1].call = "GET models"
          /\ \A r1, r2 \in Probes :
                r1 < r2 => requests[r2].now - requests[r1].now
                               >= READINESS_CHECK_INTERVAL_MS)
    /\ [][(ReadyRequestArrives /\ ~backendState.isWorking /\ InsideInterval) =>
              /\ requests'[Len(requests')].pc = "done"
              /\ requests'[Len(requests')].response[1].status = 503
              /\ vendorCalls' = vendorCalls
              /\ backendState' = backendState]_vars

\* with the flag off, a probe was started, a /ready request inside the
\* interval was answered 503 without a vendor call while the probe was
\* pending, and a second probe was started later
C25_Witness ==
    /\ ~backendState.isWorking
    /\ \E r1, r2, r3 \in Handled :
          /\ r1 < r2 /\ r2 < r3
          /\ {r1, r3} \subseteq Probes
          /\ requests[r2].handler = "ready"
          /\ CallsOf(r2) = <<>>
          /\ ResponseOf(r2).status = 503
          /\ ResponseOf(r2).body.message = "Backend not working, rate limited"
          /\ requests[r1].pc = "awaitFetchModels"

\* the kinds of the vendor calls of request r, in issue order
KindsOf(r) == [i \in 1..Len(CallsOf(r)) |-> CallsOf(r)[i].call]

\* the body of chat request r was parsed and has messages
Validated(r) ==
    /\ InChatHandler(r)
    /\ requests[r].json # None
    /\ ~NoMessages(r)
    /\ requests[r].pc # "awaitJson"

(***************************************************************************)
(* C26.  The vendor calls of a chat request are, in this order, one model  *)
(* fetch, at most one chat POST and at most one read of an error body;     *)
(* a request whose body was accepted has issued the model fetch; the POST  *)
(* is issued only after the fetch returned models; after a fetch that      *)
(* returned no model (a failed fetch included) the request issues nothing  *)
(* more and is answered 500 server_error.                                  *)
(***************************************************************************)
C26_VendorCallsOrdered ==
    \A r \in Handled :
        InChatHandler(r) =>
            /\ IsPrefix(KindsOf(r),
                        <<"GET models", "POST chat", "read error body">>)
            /\ Validated(r) => Len(CallsOf(r)) >= 1
            /\ Len(CallsOf(r)) >= 2 => CallsOf(r)[1].res = "models"
            /\ (CallsOf(r) # <<>> /\ CallsOf(r)[1].res = "empty") =>
                   /\ Len(CallsOf(r)) = 1
                   /\ Answered(r)
                   /\ IsError(ResponseOf(r), 500, "server_error")
                   /\ requests[r].translation = "none"

\* one chat request found no model and was answered 500 without a POST,
\* another has issued its POST after its model fetch
C26_Witness ==
    \E r1, r2 \in Handled :
        /\ InChatHandler(r1) /\ InChatHandler(r2)
        /\ KindsOf(r1) = <<"GET models">>
        /\ CallsOf(r1)[1].res = "empty"
        /\ ResponseOf(r1).status = 500
        /\ KindsOf(r2) = <<"GET models", "POST chat">>

\* request r has a vendor call that failed: a model fetch without models,
\* a chat POST that was refused or threw, an error body that was not read
VendorFailure(r) ==
    \E i \in 1..Len(CallsOf(r)) :
        CallsOf(r)[i].res \notin {"pending", "models", "ok", "200"}

(***************************************************************************)
(* C29.  Only a request with a failed vendor call sets the health flag to  *)
(* not-working or writes lastFailureTime; a request that made no vendor    *)
(* call, such as one whose body is not JSON, writes neither.               *)
(***************************************************************************)
C29_FlagOffOnlyOnVendorFailure ==
    \A r \in Handled :
        (requests[r].writes \cap {"lastFailureTime"} # {}) => VendorFailure(r)

====
